---- MODULE Spec2Model ----
(***************************************************************************)
(* A model of the nerd-radar request pipeline: the search-papers route     *)
(* (query translation and the three-tier paper ladder), the extract-       *)
(* contacts route (browser-automation task submission and polling), the    *)
(* analyze-researchers profile enricher, the google-scholar batch route,   *)
(* and the page that calls them (searchPapers, analyzeResearchers and the  *)
(* favorites list of the Home component).  Text is modelled as sequences of one-character strings so that  *)
(* trimming, lower-casing and substring tests are computed, not assumed.   *)
(***************************************************************************)
EXTENDS Integers, Sequences, FiniteSets, Bags, TLC

(***************************************************************************)
(* Bounds of the model.                                                    *)
(***************************************************************************)
\* entries in one paper-repository response
MaxEntries == 2
\* researchers extracted from one document
MaxResearchers == 2
\* researchers in one google-scholar batch
MaxBatch == 3
\* translations of the Query Translator followed in one behaviour
MaxCalls == 2
\* entries in a response handed to the Paper Source Adapter on its own
MaxFeed == 4
\* lines of a text handed to the Author/Contact Extractor on its own
MaxLines == 32
\* analyzeResearchers calls in flight at a time
MaxInFlight == 2
\* length of the favorites list
MaxFavorites == 3

(***************************************************************************)
(* Text helpers (JavaScript String methods).                               *)
(***************************************************************************)
Whitespace == {" ", "\t", "\n"}

UpperToLower ==
  [c \in {"A","B","C","D","E","F","G","H","I","J","K","L","M","N","O","P","Q",
          "R","S","T","U","V","W","X","Y","Z"} |->
     CASE c = "A" -> "a" [] c = "B" -> "b" [] c = "C" -> "c" [] c = "D" -> "d"
       [] c = "E" -> "e" [] c = "F" -> "f" [] c = "G" -> "g" [] c = "H" -> "h"
       [] c = "I" -> "i" [] c = "J" -> "j" [] c = "K" -> "k" [] c = "L" -> "l"
       [] c = "M" -> "m" [] c = "N" -> "n" [] c = "O" -> "o" [] c = "P" -> "p"
       [] c = "Q" -> "q" [] c = "R" -> "r" [] c = "S" -> "s" [] c = "T" -> "t"
       [] c = "U" -> "u" [] c = "V" -> "v" [] c = "W" -> "w" [] c = "X" -> "x"
       [] c = "Y" -> "y" [] c = "Z" -> "z"]

\* String.prototype.toLowerCase
toLowerCase(s) ==
  [i \in 1..Len(s) |-> IF s[i] \in DOMAIN UpperToLower THEN UpperToLower[s[i]] ELSE s[i]]

\* String.prototype.includes
includes(s, sub) ==
  \E i \in 0..(Len(s) - Len(sub)) : SubSeq(s, i + 1, i + Len(sub)) = sub

\* String.prototype.trim
trim(s) ==
  LET keep == {i \in 1..Len(s) : s[i] \notin Whitespace}
  IN  IF keep = {} THEN <<>>
      ELSE LET lo == CHOOSE i \in keep : \A j \in keep : i <= j
               hi == CHOOSE i \in keep : \A j \in keep : j <= i
           IN  SubSeq(s, lo, hi)

\* String.prototype.startsWith
startsWith(s, prefix) ==
  Len(prefix) <= Len(s) /\ SubSeq(s, 1, Len(prefix)) = prefix

\* String.prototype.endsWith
endsWith(s, suffix) ==
  Len(suffix) <= Len(s) /\ SubSeq(s, Len(s) - Len(suffix) + 1, Len(s)) = suffix

\* Array.prototype.slice(0, n)
slice(s, n) == IF Len(s) <= n THEN s ELSE SubSeq(s, 1, n)

(***************************************************************************)
(* search-papers: the Query Translator.                                    *)
(***************************************************************************)
CatLG == <<"c","a","t",":","c","s",".","L","G">>
CatCV == <<"c","a","t",":","c","s",".","C","V">>
CatCL == <<"c","a","t",":","c","s",".","C","L">>
CatRO == <<"c","a","t",":","c","s",".","R","O">>
CatQuantPh == <<"c","a","t",":","q","u","a","n","t","-","p","h">>
CatPhysics == <<"c","a","t",":","p","h","y","s","i","c","s">>
CatMath == <<"c","a","t",":","m","a","t","h">>
CatAI == <<"c","a","t",":","c","s",".","A","I">>

\* 'all:"' + query + '"'
AllFields(query) == <<"a","l","l",":","\"">> \o query \o <<"\"">>

\* a table with a "neural" keyword for the machine-learning category
FallbackWithNeuralKeyword(query) ==
  IF includes(toLowerCase(query), <<"n","e","u","r","a","l">>) THEN CatLG
  ELSE AllFields(query)

generateFallbackQuery(query) ==
  LET queryLower == toLowerCase(query)
      has(sub) == includes(queryLower, sub)
  IN  IF has(<<"m","a","c","h","i","n","e"," ","l","e","a","r","n","i","n","g">>)
         \/ has(<<"m","l">>)
      THEN CatLG
      ELSE IF has(<<"c","o","m","p","u","t","e","r"," ","v","i","s","i","o","n">>)
              \/ has(<<"c","v">>)
      THEN CatCV
      ELSE IF has(<<"n","a","t","u","r","a","l"," ","l","a","n","g","u","a","g","e",
                    " ","p","r","o","c","e","s","s","i","n","g">>)
              \/ has(<<"n","l","p">>)
      THEN CatCL
      ELSE IF has(<<"r","o","b","o","t","i","c","s">>)
      THEN CatRO
      ELSE IF has(<<"q","u","a","n","t","u","m">>)
      THEN CatQuantPh
      ELSE IF has(<<"p","h","y","s","i","c","s">>)
      THEN CatPhysics
      ELSE IF has(<<"m","a","t","h","e","m","a","t","i","c","s">>)
              \/ has(<<"m","a","t","h">>)
      THEN CatMath
      ELSE IF has(<<"a","i">>)
              \/ has(<<"a","r","t","i","f","i","c","i","a","l"," ","i","n","t","e",
                       "l","l","i","g","e","n","c","e">>)
      THEN CatAI
      ELSE IF has(<<"h","e","a","l","t","h","c","a","r","e">>)
              \/ has(<<"m","e","d","i","c","a","l">>)
      THEN AllFields(query)
      ELSE AllFields(query)

\* What the AI completion call can do: throw, or answer with a content string
\* (the empty content stands for a null/empty completion).
AIContents ==
  { <<>>, <<" ">>, <<"t","i",":","g","r","a","p","h","s">> }
AIOutcomes ==
  {[throws |-> TRUE, content |-> <<>>]}
    \cup {[throws |-> FALSE, content |-> c] : c \in AIContents}

\* the completion's text is returned as it is, also when it is empty
TranslateWithoutFallback(hasClient, query, ai) ==
  IF ~hasClient \/ ai.throws THEN generateFallbackQuery(query) ELSE trim(ai.content)

\* generateAISearchQuery, given whether the module-level client exists and
\* what the completion call does.
generateAISearchQuery(hasClient, query, ai) ==
  IF ~hasClient THEN generateFallbackQuery(query)
  ELSE IF ai.throws THEN generateFallbackQuery(query)
  ELSE IF trim(ai.content) # <<>> THEN trim(ai.content)
  ELSE generateFallbackQuery(query)

(***************************************************************************)
(* State.                                                                  *)
(***************************************************************************)
VARIABLES
  client,        \* search-papers / analyze-researchers: the OpenAI client exists
  spPc,          \* search-papers POST: "idle", awaiting "primary" / "fallback" /
                 \* "simple" fetch, or "done"
  spQuery,       \* the request's query text
  spFilters,     \* maxResults, duration, categories after defaulting
  searchQuery,   \* the structured query of the primary tier
  cutoffDate,    \* the computed cutoff (set = FALSE: null)
  papers,        \* the papers array
  spRequests,    \* search_query of every paper-repository fetch issued so far
  spResponse,    \* the HTTP response of the route
  browserUseToken,   \* extract-contacts: BROWSER_USE_API_KEY is set
  crPc,              \* extract-contacts POST: "idle", "submitted" (run-task in
                     \* flight), "polling" (in the while loop) or "done"
  crResearcher,      \* the request's researcher
  profileUrl,        \* the profileUrl of the POST handler ("" while undefined)
  attempts,          \* the loop counter of extractContactDetails
  crSubmits,         \* run-task requests issued
  crPolls,           \* task status requests issued
  crAnswer,          \* how the last status request ended: "none" yet, "throws",
                     \* "notok" or "ok"
  crStatus,          \* the status read from the last status answer ("" if none)
  taskData,          \* the run-task answer: how it ended, its task id, its status
  structuredOutput,  \* structuredOutput of the last completed answer looked at
  textOutput,        \* textOutput of the last completed answer looked at
  extractedContacts, \* what extractContactDetails returned
  crResponse,        \* the HTTP response of the route
  arPc,              \* analyze-researchers POST: "idle", "fetching" (the
                     \* document fetch in flight), "enhancing" or "done"
  pdfUrl,            \* the request's pdfUrl (empty: missing)
  arFetches,         \* calls of fetch(pdfUrl)
  arDocument,        \* how the document fetch ended: "" yet, "throws", "notok",
                     \* "empty" (no text) or "text"
  arExtracted,       \* extractResearcherContacts was called
  arResponse,        \* the HTTP response of the route
  pePc,              \* enhanceResearcherInfo: "idle", "enhancing" (inside the
                     \* loop) or "done"
  peInput,           \* the researchers handed to enhanceResearcherInfo
  peContext,         \* the research areas the paper context mentions
  peIdx,             \* the position of the for-of loop in peInput
  enhancedResearchers, \* the array being built by the loop
  peOutput,          \* what enhanceResearcherInfo returned
  peLog,             \* per researcher of the loop so far: the papers and the
                     \* scholar profile its calls brought, and whether the
                     \* research-area completion threw
  serpApiKey,        \* google-scholar: SERP_API_KEY is set
  gsPc,              \* google-scholar POST: "idle", "waiting" (Promise.all
                     \* pending) or "done"
  gsInput,           \* the request body: whether researchers is an array, and
                     \* its elements
  gsPending,         \* positions whose lookup has not settled
  gsOutcomes,        \* position -> how its lookup ended ("" while pending)
  gsResults,         \* position -> the object the map callback resolved to
  gsResponse,        \* the HTTP response of the route
  adPc,              \* the Paper Source Adapter on its own: "idle" or "done"
  adEntries,         \* the entries matched in the response
  adCutoff,          \* the cutoff in force
  adPapers,          \* the papers array after the loop
  exPc,              \* the Author/Contact Extractor on its own: "idle" or "done"
  exText,            \* the text handed to extractResearcherContacts
  exResearchers,     \* the array it returned
  qtCalls,           \* the calls of generateAISearchQuery so far: the text, what
                     \* the completion did, and the query returned
  loading,           \* page: a searchPapers call is between its start and its end
  searchResults,     \* page: the ids of the papers listed (isNull: null)
  paperAnalysisResults, \* page: paper id -> the analysis result stored for it
  expandedPapers,    \* page: the paper ids whose researcher list is unfolded
  analyzingPaper,    \* page: the in-progress marker ("" is null)
  analyses,          \* page: the analyzeResearchers calls that have not returned
  selectedResearchers, \* page: the favorites list
  renderedSelected   \* page: the selectedResearchers of the last render, which
                     \* the event handlers in place close over

spVars == <<client, spPc, spQuery, spFilters, searchQuery, cutoffDate, papers,
            spRequests, spResponse>>

(***************************************************************************)
(* search-papers: dates, entries and the Paper Source Adapter.             *)
(***************************************************************************)
\* Instants are counted in calendar months.  The <published> text of an entry
\* that has one is an ISO date, as in the repository's Atom feed; an entry
\* without the field has no date.
NowValues == {100, 101}
PubTimes == {30, 90, 100}
InvalidDate == [valid |-> FALSE, t |-> 0]
PubDates == {[valid |-> TRUE, t |-> t] : t \in PubTimes}
NullCutoff == [set |-> FALSE, t |-> 0]

Durations == {"1month", "3months", "6months", "1year", "2years", "5years", "all"}
DefaultDuration == "2years"
DefaultMaxResults == 20
SimpleSlice == 5

\* lines 133-156: the switch over the duration
CutoffFor(duration, now) ==
  IF duration = "all" THEN NullCutoff
  ELSE CASE duration = "1month"  -> [set |-> TRUE, t |-> now - 1]
         [] duration = "3months" -> [set |-> TRUE, t |-> now - 3]
         [] duration = "6months" -> [set |-> TRUE, t |-> now - 6]
         [] duration = "1year"   -> [set |-> TRUE, t |-> now - 12]
         [] duration = "2years"  -> [set |-> TRUE, t |-> now - 24]
         [] duration = "5years"  -> [set |-> TRUE, t |-> now - 60]
         [] OTHER -> NullCutoff

\* paperDate < cutoffDate; a comparison with Invalid Date is false
DateBefore(published, cutoff) == published.valid /\ published.t < cutoff.t

\* lines 179-184: the entry is skipped
SkippedByCutoff(published, cutoff) == cutoff.set /\ DateBefore(published, cutoff)

\* An <entry> of the response: which of the four matched fields is missing,
\* and the published date it carries.
MissingKinds == {"title", "summary", "published", "id"}
Entries ==
  {[missing |-> "none", published |-> d] : d \in PubDates}
    \cup {[missing |-> m, published |-> InvalidDate] : m \in MissingKinds}

\* titleMatch && summaryMatch && publishedMatch && idMatch
WellFormed(entry) == entry.missing = "none"

Responses == UNION {[1..n -> Entries] : n \in 0..MaxEntries}

FetchOutcomes ==
  {[kind |-> "throws", entries |-> <<>>], [kind |-> "notok", entries |-> <<>>]}
    \cup {[kind |-> "ok", entries |-> r] : r \in Responses}

Paper(i, entry, authors) ==
  [index |-> i, published |-> entry.published, authors |-> authors]

RECURSIVE ParseUntilMalformed(_, _, _)
\* the loop ends at the first entry that lacks a field
ParseUntilMalformed(entries, i, cutoff) ==
  IF i > Len(entries) \/ ~WellFormed(entries[i]) THEN <<>>
  ELSE IF ~SkippedByCutoff(entries[i].published, cutoff)
       THEN <<Paper(i, entries[i], "parsed")>> \o ParseUntilMalformed(entries, i + 1, cutoff)
       ELSE ParseUntilMalformed(entries, i + 1, cutoff)

RECURSIVE ParseFrom(_, _, _)
\* lines 158-199 and 220-259: the loop over the entries, from entry i on
ParseFrom(entries, i, cutoff) ==
  IF i > Len(entries) THEN <<>>
  ELSE IF WellFormed(entries[i]) /\ ~SkippedByCutoff(entries[i].published, cutoff)
       THEN <<Paper(i, entries[i], "parsed")>> \o ParseFrom(entries, i + 1, cutoff)
       ELSE ParseFrom(entries, i + 1, cutoff)

ParseEntries(entries, cutoff) == ParseFrom(entries, 1, cutoff)

RECURSIVE ParseSimpleFrom(_, _)
\* lines 282-306: the last-resort loop
ParseSimpleFrom(entries, i) ==
  IF i > Len(entries) THEN <<>>
  ELSE IF WellFormed(entries[i])
       THEN <<Paper(i, entries[i], "Sample Research")>> \o ParseSimpleFrom(entries, i + 1)
       ELSE ParseSimpleFrom(entries, i + 1)

ParseSimpleEntries(entries) == ParseSimpleFrom(entries, 1)

(***************************************************************************)
(* The Paper Source Adapter on its own: the loop of lines 158-199 over any *)
(* response.                                                               *)
(***************************************************************************)
adVars == <<adPc, adEntries, adCutoff, adPapers>>

Feeds == UNION {[1..n -> Entries] : n \in 0..MaxFeed}

FeedDurations == {"1month", "2years", "all"}

\* lines 133-199: the cutoff is computed and the entries are parsed
ADParse(entries, duration, now) ==
  /\ adPc = "idle"
  /\ adEntries' = entries
  /\ adCutoff' = CutoffFor(duration, now)
  /\ adPapers' = ParseEntries(entries, adCutoff')
  /\ adPc' = "done"

InitAdapter ==
  /\ adPc = "idle"
  /\ adEntries = <<>>
  /\ adCutoff = NullCutoff
  /\ adPapers = <<>>

(***************************************************************************)
(* search-papers: the route.                                               *)
(***************************************************************************)
GraphNeuralNetworks ==
  <<"g","r","a","p","h"," ","n","e","u","r","a","l"," ","n","e","t","w","o","r","k","s">>

Queries ==
  { <<>>, <<" ", " ">>,
    GraphNeuralNetworks,
    <<"H","T","M","L"," ","p","a","r","s","e","r","s">>,
    <<" ","q","u","a","n","t","u","m"," ","o","p","t","i","c","s">> }

CategoryLists == { <<>>, << <<"c","s",".","A","I">> >>,
                   << <<"c","s",".","A","I">>, <<"c","s",".","R","O">> >> }

\* the request's filters object; 0 and "" stand for an absent field
FilterInputs ==
  [maxResults : {0, 1}, duration : Durations \cup {""}, categories : CategoryLists]

RECURSIVE JoinOr(_)
\* categories.map(cat => `cat:${cat}`).join(' OR ')
JoinOr(cats) ==
  IF Len(cats) = 0 THEN <<>>
  ELSE IF Len(cats) = 1 THEN <<"c","a","t",":">> \o cats[1]
  ELSE <<"c","a","t",":">> \o cats[1] \o <<" ","O","R"," ">> \o JoinOr(Tail(cats))

\* lines 103-106
WithCategories(q, categories) ==
  IF Len(categories) > 0
  THEN q \o <<" ","A","N","D"," ","(">> \o JoinOr(categories) \o <<")">>
  ELSE q

NoResponse == [status |-> 0, body |-> "none", papers |-> <<>>, query |-> <<>>]
ErrorResponse(code) == [status |-> code, body |-> "error", papers |-> <<>>, query |-> <<>>]

\* lines 315-318
PapersResponse(ps, sq) ==
  [status |-> 200, body |-> "papers", papers |-> ps,
   query |-> IF Len(ps) > 0 THEN sq ELSE CatLG]

(***************************************************************************)
(* The Query Translator on its own: any caller, any text.                  *)
(***************************************************************************)
qtVars == <<qtCalls>>

TranslatorTexts ==
  Queries \cup { <<"N","L","P">>, <<"r","o","b","o","t","i","c","s">>,
                 <<"m","e","d","i","c","a","l"," ","i","m","a","g","i","n","g">> }

\* lines 18-52: one call of generateAISearchQuery.  called: the client exists,
\* so the completion was requested; throws and content: what it did.
QTTranslate(query, ai) ==
  /\ Len(qtCalls) < MaxCalls
  /\ qtCalls' = Append(qtCalls,
       [query   |-> query,
        called  |-> client,
        throws  |-> client /\ ai.throws,
        content |-> IF client /\ ~ai.throws THEN ai.content ELSE <<>>,
        result  |-> generateAISearchQuery(client, query, ai)])

InitTranslate == qtCalls = <<>>

\* lines 82-114: validation, query translation, filters, the primary fetch
SPPost(query, filters, ai) ==
  /\ spPc = "idle"
  /\ spQuery' = query
  /\ IF trim(query) = <<>>
     THEN /\ spResponse' = ErrorResponse(400)
          /\ spPc' = "done"
          /\ UNCHANGED <<spFilters, searchQuery, spRequests>>
     ELSE /\ spFilters' =
               [maxResults |-> IF filters.maxResults = 0 THEN DefaultMaxResults
                               ELSE filters.maxResults,
                duration   |-> IF filters.duration = "" THEN DefaultDuration
                               ELSE filters.duration,
                categories |-> filters.categories]
          /\ searchQuery' =
               WithCategories(generateAISearchQuery(client, trim(query), ai),
                              filters.categories)
          /\ spRequests' = <<searchQuery'>>
          /\ spPc' = "primary"
          /\ UNCHANGED spResponse
  /\ UNCHANGED <<client, cutoffDate, papers>>

\* lines 315-318: the route answers with the papers
Respond(ps) ==
  /\ spResponse' = PapersResponse(ps, searchQuery)
  /\ spPc' = "done"
  /\ UNCHANGED spRequests

\* lines 203-212: papers is empty, the fallback fetch is issued
IssueFallback ==
  /\ spRequests' = Append(spRequests, generateFallbackQuery(trim(spQuery)))
  /\ spPc' = "fallback"
  /\ UNCHANGED spResponse

\* the route answers after the fallback tier, whatever it left
AnswerWithoutLastResort == Respond(papers')

\* lines 268-274: papers is still empty, the last-resort fetch is issued
IssueSimple ==
  /\ spRequests' = Append(spRequests, CatLG)
  /\ spPc' = "simple"
  /\ UNCHANGED spResponse

\* lines 114-204: the primary fetch answers
SPPrimary(outcome, now) ==
  /\ spPc = "primary"
  /\ IF outcome.kind # "ok"
     THEN \* the throw at line 117 (or the rejected fetch) reaches the catch at 320
          /\ spResponse' = ErrorResponse(500)
          /\ spPc' = "done"
          /\ UNCHANGED <<cutoffDate, papers, spRequests>>
     ELSE /\ cutoffDate' = CutoffFor(spFilters.duration, now)
          /\ papers' = ParseEntries(outcome.entries, cutoffDate')
          /\ IF Len(papers') = 0 THEN IssueFallback ELSE Respond(papers')
  /\ UNCHANGED <<client, spQuery, spFilters, searchQuery>>

\* lines 212-269: the fallback fetch answers
SPFallback(outcome) ==
  /\ spPc = "fallback"
  /\ papers' = IF outcome.kind = "ok"
               THEN papers \o ParseEntries(slice(outcome.entries, spFilters.maxResults),
                                           cutoffDate)
               ELSE papers
  /\ IF Len(papers') = 0 THEN IssueSimple ELSE Respond(papers')
  /\ UNCHANGED <<client, spQuery, spFilters, searchQuery, cutoffDate>>

\* lines 274-318: the last-resort fetch answers
SPSimple(outcome) ==
  /\ spPc = "simple"
  /\ papers' = IF outcome.kind = "ok"
               THEN papers \o ParseSimpleEntries(slice(outcome.entries, SimpleSlice))
               ELSE papers
  /\ Respond(papers')
  /\ UNCHANGED <<client, spQuery, spFilters, searchQuery, cutoffDate>>

(***************************************************************************)
(* extract-contacts: the Contact Resolver.                                 *)
(***************************************************************************)
crVars == <<browserUseToken, crPc, crResearcher, profileUrl, attempts, crSubmits,
            crPolls, crAnswer, crStatus, taskData, structuredOutput, textOutput,
            extractedContacts, crResponse>>

maxAttempts == 24

\* The timeout message of lines 855-857 and an error text carried by a task's
\* own structured output.
TimeoutError == "Contact extraction timed out"
OutputErrors == {"", "page reported an error"}

\* A ContactExtractionResult: the contact fields present and its error property.
\* isNull: the function returned null.
NullContacts == [isNull |-> TRUE, fields |-> {}, error |-> ""]
Contacts(fields, error) == [isNull |-> FALSE, fields |-> fields, error |-> error]

ContactFieldSets == {{}, {"email"}}

\* structured_output of a task: absent, an object (or a JSON string of one),
\* or a string that JSON.parse rejects
StructuredOutputs ==
  {[kind |-> "absent", fields |-> {}, error |-> ""],
   [kind |-> "badjson", fields |-> {}, error |-> ""]}
    \cup {[kind |-> "object", fields |-> f, error |-> e] :
            f \in ContactFieldSets, e \in OutputErrors}

\* output text of a task: absent, text without contact patterns, text with an email
TextOutputs == {"", "no contact patterns", "has email"}

\* lines 865-893
parseContactsFromText(text) ==
  Contacts(IF text = "has email" THEN {"email"} ELSE {}, "")

Statuses == {"", "running", "completed", "success", "failed", "error", "cancelled"}

\* the JSON of a run-task or status answer
TaskData ==
  [taskId : BOOLEAN, status : Statuses, structured : StructuredOutputs,
   text : TextOutputs]

NoTaskData ==
  [taskId |-> FALSE, status |-> "",
   structured |-> [kind |-> "absent", fields |-> {}, error |-> ""], text |-> ""]

TaskAnswers ==
  {[kind |-> "throws", data |-> NoTaskData], [kind |-> "notok", data |-> NoTaskData]}
    \cup {[kind |-> "ok", data |-> d] : d \in TaskData}

\* the answers of a status request; no id is read from its JSON
StatusAnswers == {a \in TaskAnswers : ~a.data.taskId}

\* the researcher of the request body; "" stands for an absent link
ResearcherInputs ==
  [present : BOOLEAN, hasName : BOOLEAN, profile_link : {"", "info link"},
   google_scholar : {"", "raw link"}]

\* the raw stored link wins over the enrichment profile's link
RawLinkFirst(r) == IF r.google_scholar # "" THEN r.google_scholar ELSE r.profile_link

\* line 904: researcher.google_scholar_info?.profile_link || researcher.google_scholar
ProfileUrl(r) == IF r.profile_link # "" THEN r.profile_link ELSE r.google_scholar

NoContactResponse ==
  [status |-> 0, error |-> "", contacts |-> NullContacts, source_url |-> ""]

ContactError(code, msg) ==
  [status |-> code, error |-> msg, contacts |-> NullContacts, source_url |-> ""]

\* the error property of the result is not looked at
ContactResponseIgnoringError(ec, url) ==
  IF ec.isNull
  THEN ContactError(500, "Failed to extract contact details")
  ELSE [status |-> 200, error |-> "", contacts |-> ec, source_url |-> url]

\* lines 919-939: the route's answer for what extractContactDetails returned
ContactResponse(ec, url) ==
  IF ec.isNull
  THEN ContactError(500, "Failed to extract contact details")
  ELSE IF ec.error # ""
  THEN ContactError(408, ec.error)
  ELSE [status |-> 200, error |-> "", contacts |-> ec, source_url |-> url]

\* extractContactDetails returns ec and the route answers
CRReturn(ec, url) ==
  /\ extractedContacts' = ec
  /\ crResponse' = ContactResponse(ec, url)
  /\ crPc' = "done"

\* what the run-task answer was: its kind and, of its JSON, the task id and
\* the status (lines 747-769)
NoAnswer == [kind |-> "none", taskId |-> FALSE, status |-> ""]
Answered(answer) ==
  [kind |-> answer.kind, taskId |-> answer.data.taskId, status |-> answer.data.status]

\* lines 772 and 820: the structured output of a completed answer
\* lines 781 and 831: its text output, evaluated only without a structured one
ReadOutput(data) ==
  /\ structuredOutput' = data.structured
  /\ textOutput' = IF data.structured.kind = "absent" THEN data.text ELSE "unread"

\* a completed task without output gives a result without fields
EmptyContactsWithoutOutput(data) ==
  IF data.structured.kind = "object"
  THEN [found |-> TRUE, result |-> Contacts(data.structured.fields, data.structured.error)]
  ELSE IF data.structured.kind = "badjson"
  THEN [found |-> TRUE, result |-> NullContacts]
  ELSE IF data.text # ""
  THEN [found |-> TRUE, result |-> parseContactsFromText(data.text)]
  ELSE [found |-> FALSE, result |-> Contacts({}, "")]

\* lines 772-785 and 820-835: the output of a completed task, if any.
\* found = FALSE: neither structured nor text output.
CompletedOutput(data) ==
  IF data.structured.kind = "object"
  THEN [found |-> TRUE, result |-> Contacts(data.structured.fields, data.structured.error)]
  ELSE IF data.structured.kind = "badjson"
  THEN \* JSON.parse throws, caught at line 859
       [found |-> TRUE, result |-> NullContacts]
  ELSE IF data.text # ""
  THEN [found |-> TRUE, result |-> parseContactsFromText(data.text)]
  ELSE [found |-> FALSE, result |-> NullContacts]

\* a completed status alone ends the submission
CompletedStatusOnly(data) == data.status \in {"completed", "success"}

\* lines 769-786: the run-task answer already carries the result
CompletedSynchronously(data) ==
  data.status \in {"completed", "success"} /\ CompletedOutput(data).found

\* lines 906-917 and 673-745: the profile URL check, the credential check, the
\* run-task request
CRExtract(url) ==
  IF url = ""
  THEN /\ crResponse' = ContactError(400, "No Google Scholar profile URL available")
       /\ crPc' = "done"
       /\ UNCHANGED <<crSubmits, extractedContacts>>
  ELSE IF ~browserUseToken
  THEN /\ CRReturn(NullContacts, url)
       /\ UNCHANGED crSubmits
  ELSE /\ crSubmits' = crSubmits + 1
       /\ crPc' = "submitted"
       /\ UNCHANGED <<extractedContacts, crResponse>>

\* lines 895-917: validation and the choice of the profile URL
CRPost(researcher) ==
  /\ crPc = "idle"
  /\ crResearcher' = researcher
  /\ IF ~researcher.present \/ ~researcher.hasName
     THEN /\ crResponse' = ContactError(400, "Researcher information required")
          /\ crPc' = "done"
          /\ UNCHANGED <<profileUrl, crSubmits, extractedContacts>>
     ELSE /\ profileUrl' = ProfileUrl(researcher)
          /\ CRExtract(ProfileUrl(researcher))
  /\ UNCHANGED <<browserUseToken, attempts, crPolls, crAnswer, crStatus, taskData,
                 structuredOutput, textOutput>>

\* lines 747-790: the run-task answer
CRSubmitted(answer) ==
  /\ crPc = "submitted"
  /\ taskData' = Answered(answer)
  /\ IF answer.kind # "ok" \/ ~answer.data.taskId
     THEN /\ CRReturn(NullContacts, profileUrl)
          /\ UNCHANGED <<structuredOutput, textOutput>>
     ELSE IF CompletedSynchronously(answer.data)
     THEN /\ ReadOutput(answer.data)
          /\ CRReturn(CompletedOutput(answer.data).result, profileUrl)
     ELSE IF answer.data.status \in {"completed", "success"}
     THEN /\ ReadOutput(answer.data)
          /\ crPc' = "polling"
          /\ UNCHANGED <<extractedContacts, crResponse>>
     ELSE /\ crPc' = "polling"
          /\ UNCHANGED <<extractedContacts, crResponse, structuredOutput, textOutput>>
  /\ attempts' = 0
  /\ UNCHANGED <<browserUseToken, crResearcher, profileUrl, crSubmits, crPolls,
                 crAnswer, crStatus>>

\* lines 792, 852-857: back at the loop head with the counter n
CRLoopHead(n) ==
  IF n < maxAttempts
  THEN /\ crPc' = "polling"
       /\ UNCHANGED <<extractedContacts, crResponse>>
  ELSE CRReturn(Contacts({}, TimeoutError), profileUrl)

\* the counter is never advanced
AttemptsNotCounted(n, answer) == n

\* a non-2xx answer does not use up an attempt
CountOkAnswersOnly(n, answer) == IF answer.kind = "notok" THEN n ELSE n + 1

\* line 793: attempts++, before the status request
NextAttempt(n, answer) == n + 1

\* without "cancelled"
FailedOrError == {"failed", "error"}

\* line 841
FailureStatuses == {"failed", "error", "cancelled"}

\* lines 792-852: one iteration of the polling loop
CRPoll(answer) ==
  /\ crPc = "polling"
  /\ attempts < maxAttempts
  /\ attempts' = NextAttempt(attempts, answer)
  /\ crPolls' = crPolls + 1
  /\ crAnswer' = answer.kind
  /\ crStatus' = IF answer.kind = "ok" THEN answer.data.status ELSE ""
  /\ IF answer.kind = "ok" /\ answer.data.status \in {"completed", "success"}
     THEN ReadOutput(answer.data)
     ELSE UNCHANGED <<structuredOutput, textOutput>>
  /\ IF answer.kind = "throws"
     THEN CRReturn(NullContacts, profileUrl)
     ELSE IF answer.kind = "notok"
     THEN CRLoopHead(attempts')
     ELSE IF answer.data.status \in {"completed", "success"}
     THEN CRReturn(CompletedOutput(answer.data).result, profileUrl)
     ELSE IF answer.data.status \in FailureStatuses
     THEN CRReturn(NullContacts, profileUrl)
     ELSE CRLoopHead(attempts')
  /\ UNCHANGED <<browserUseToken, crResearcher, profileUrl, crSubmits, taskData>>

InitContact ==
  /\ browserUseToken \in BOOLEAN
  /\ crPc = "idle"
  /\ crResearcher = [present |-> FALSE, hasName |-> FALSE, profile_link |-> "",
                     google_scholar |-> ""]
  /\ profileUrl = ""
  /\ attempts = 0
  /\ crSubmits = 0
  /\ crPolls = 0
  /\ crAnswer = "none"
  /\ crStatus = ""
  /\ taskData = NoAnswer
  /\ structuredOutput = [kind |-> "unread", fields |-> {}, error |-> ""]
  /\ textOutput = "unread"
  /\ extractedContacts = NullContacts
  /\ crResponse = NoContactResponse

(***************************************************************************)
(* analyze-researchers: the Profile Enricher.                              *)
(***************************************************************************)
peVars == <<pePc, peInput, peContext, peIdx, enhancedResearchers, peOutput, peLog>>
arVars == <<arPc, pdfUrl, arFetches, arDocument, arExtracted, arResponse>>

\* A text, as far as extractResearcherContacts looks at it: its non-blank
\* lines (line 392), for each line whether it holds one of the author-section
\* keywords (line 401) and the name-pattern matches it yields that pass the
\* tests of lines 419-422 other than the duplicate test, in match order; the
\* matches of the email, ORCID, phone and profile-link patterns and the
\* institution lines, each list in text order; which of these values hold a
\* part of which name; and the research areas it mentions.  empty: the text
\* has no characters at all.  Names are numbers.
Line(keyword, names) == [keyword |-> keyword, names |-> names]

\* lines 366-389, 432-443: the lists the patterns yield.  holdsNamePart: the
\* pairs <<value, name>> for which the substring tests of lines 452-453 hold.
MatchLists(emails, orcids, institutions, phones, linkedin, scholar, researchgate, holds) ==
  [emails |-> emails, orcids |-> orcids, institutions |-> institutions,
   phones |-> phones, linkedinProfiles |-> linkedin, scholarProfiles |-> scholar,
   researchgateProfiles |-> researchgate, holdsNamePart |-> holds]

NoMatches == MatchLists(<<>>, <<>>, <<>>, <<>>, <<>>, <<>>, <<>>, {})

Text(empty, lines, lists, mentions) ==
  [empty |-> empty, lines |-> lines, lists |-> lists, mentions |-> mentions]

EmptyText == Text(TRUE, <<>>, NoMatches, {})

\* texts the patterns of lines 367-389 and the institution test of lines
\* 432-443 can match
MatchTexts ==
  [emails |-> <<"ada@mit.edu", "bo@mit.edu", "cy@mit.edu">>,
   orcids |-> <<"0000-0001-0000-0001", "0000-0001-0000-0002", "0000-0001-0000-0003">>,
   institutions |-> <<"University of A", "Institute of B", "College of C">>,
   phones |-> <<"+1 617 555 0100">>,
   linkedin |-> <<"linkedin.com/in/a", "linkedin.com/in/b", "linkedin.com/in/c">>,
   scholar |-> <<"scholar.google.com/citations?user=a",
                 "scholar.google.com/citations?user=b",
                 "scholar.google.com/citations?user=c">>,
   researchgate |-> <<"researchgate.net/profile/a", "researchgate.net/profile/b",
                      "researchgate.net/profile/c">>]

\* lines 469-471: `https://${link}`
Https(link) ==
  CASE link = "linkedin.com/in/a" -> "https://linkedin.com/in/a"
    [] link = "linkedin.com/in/b" -> "https://linkedin.com/in/b"
    [] link = "linkedin.com/in/c" -> "https://linkedin.com/in/c"
    [] link = "scholar.google.com/citations?user=a" ->
         "https://scholar.google.com/citations?user=a"
    [] link = "scholar.google.com/citations?user=b" ->
         "https://scholar.google.com/citations?user=b"
    [] link = "scholar.google.com/citations?user=c" ->
         "https://scholar.google.com/citations?user=c"
    [] link = "researchgate.net/profile/a" -> "https://researchgate.net/profile/a"
    [] link = "researchgate.net/profile/b" -> "https://researchgate.net/profile/b"
    [] link = "researchgate.net/profile/c" -> "https://researchgate.net/profile/c"

\* the first k elements of a list
Take(list, k) == SubSeq(list, 1, IF k < Len(list) THEN k ELSE Len(list))

ScanLimit == 30
HeadLines == 15
MaxRecords == 10

\* lines 397-407: the lines whose matches are looked at: among the first 30,
\* the first 15 and every line from the first keyword line on
Scanned(lines) ==
  {i \in 1..Len(lines) :
     i <= ScanLimit /\ (i <= HeadLines \/ \E j \in 1..i : lines[j].keyword)}

\* the matches of the scanned lines, as <<line, position in the line>>
Matches(lines) ==
  UNION {{<<i, k>> : k \in 1..Len(lines[i].names)} : i \in Scanned(lines)}

\* match a is met before match b by the loops of lines 397 and 418
MetBefore(a, b) == a[1] < b[1] \/ (a[1] = b[1] /\ a[2] < b[2])

\* lines 418-425: a match is pushed unless authorInfo already includes its
\* name, that is unless an earlier match has the same name
PushedMatches(lines) ==
  {m \in Matches(lines) :
     ~\E e \in Matches(lines) :
        MetBefore(e, m) /\ lines[e[1]].names[e[2]] = lines[m[1]].names[m[2]]}

\* authorInfo[r], counted from 1: the name of the r-th pushed match
AuthorInfoAt(lines, pushed, r) ==
  LET m == CHOOSE x \in pushed :
             Cardinality({e \in pushed : MetBefore(e, x)}) = r - 1
  IN  lines[m[1]].names[m[2]]

\* list[i] || undefined; "" is undefined
At(list, i) == IF i <= Len(list) THEN list[i] ELSE ""

\* list[i] ? `https://${list[i]}` : undefined
LinkAt(list, i) == IF i <= Len(list) THEN Https(list[i]) ELSE ""

\* lines 448-462: the emails that hold a part of the name, then every phone
AdditionalContacts(name, lists) ==
  LET mine == SelectSeq(lists.emails, LAMBDA e : <<e, name>> \in lists.holdsNamePart)
  IN  [k \in 1..Len(mine) |-> [kind |-> "Email", value |-> mine[k]]]
        \o [k \in 1..Len(lists.phones) |-> [kind |-> "Phone", value |-> lists.phones[k]]]

\* every list is looked up at position 1
FirstOfEachList(name, i, text) ==
  [name           |-> name,
   email          |-> At(text.lists.emails, 1),
   orcid          |-> At(text.lists.orcids, 1),
   institution    |-> At(text.lists.institutions, 1),
   google_scholar |-> LinkAt(text.lists.scholarProfiles, 1),
   linkedin       |-> LinkAt(text.lists.linkedinProfiles, 1),
   researchgate   |-> LinkAt(text.lists.researchgateProfiles, 1),
   research_areas |-> <<>>,
   arxiv_papers   |-> <<>>,
   paper_count    |-> 0,
   additional_contacts |-> AdditionalContacts(name, text.lists)]

\* lines 446-478: the researcher built for the i-th name.  The website
\* (lines 481-487) is left out.
ExtractedResearcher(name, i, text) ==
  [name           |-> name,
   email          |-> At(text.lists.emails, i),
   orcid          |-> At(text.lists.orcids, i),
   institution    |-> At(text.lists.institutions, i),
   google_scholar |-> LinkAt(text.lists.scholarProfiles, i),
   linkedin       |-> LinkAt(text.lists.linkedinProfiles, i),
   researchgate   |-> LinkAt(text.lists.researchgateProfiles, i),
   research_areas |-> <<>>,
   arxiv_papers   |-> <<>>,
   paper_count    |-> 0,
   additional_contacts |-> AdditionalContacts(name, text.lists)]

\* a researcher is built for every candidate name
ExtractAllCandidates(text) ==
  LET pushed == PushedMatches(text.lines)
  IN  [i \in 1..Cardinality(pushed) |->
         ExtractedResearcher(AuthorInfoAt(text.lines, pushed, i), i, text)]

\* lines 363-493
extractResearcherContacts(text) ==
  LET pushed == PushedMatches(text.lines)
      n == IF Cardinality(pushed) < MaxRecords THEN Cardinality(pushed)
           ELSE MaxRecords
  IN  [i \in 1..n |-> ExtractedResearcher(AuthorInfoAt(text.lines, pushed, i), i, text)]

\* The first page of a fetched document: up to MaxResearchers names on its
\* first line, some of the profile links, some research areas mentioned.
DocumentText(n, gs, li, rg, mentions) ==
  Text(FALSE,
       IF n = 0 THEN <<>> ELSE <<Line(FALSE, [k \in 1..n |-> k])>>,
       MatchLists(<<>>, <<>>, <<>>, <<>>, Take(MatchTexts.linkedin, li),
                  Take(MatchTexts.scholar, gs), Take(MatchTexts.researchgate, rg), {}),
       mentions)

\* The match lists of the extractor on its own: none; three of each kind,
\* the first email holding a part of names 1 and 2; lists of different
\* lengths; an email that the text holds twice.
PageMatches ==
  {NoMatches,
   MatchLists(MatchTexts.emails, MatchTexts.orcids, MatchTexts.institutions, MatchTexts.phones, MatchTexts.linkedin,
              MatchTexts.scholar, MatchTexts.researchgate,
              {<<"ada@mit.edu", 1>>, <<"ada@mit.edu", 2>>, <<"bo@mit.edu", 2>>}),
   MatchLists(Take(MatchTexts.emails, 1), Take(MatchTexts.orcids, 2), <<>>, <<>>, MatchTexts.linkedin,
              Take(MatchTexts.scholar, 1), Take(MatchTexts.researchgate, 2), {<<"ada@mit.edu", 1>>}),
   MatchLists(<<"ada@mit.edu", "ada@mit.edu">>, <<>>, <<>>, <<>>, <<>>, <<>>, <<>>,
              {<<"ada@mit.edu", 1>>})}

\* The texts of the extractor on its own: nLines lines of perLine names each,
\* all distinct or repeating three names, a keyword on line keywordAt (0: on
\* no line), and match lists.
PageText(nLines, perLine, keywordAt, repeating, lists) ==
  Text(FALSE,
       [i \in 1..nLines |->
          Line(i = keywordAt,
               [k \in 1..perLine |->
                  IF repeating THEN (((i - 1) * perLine + k) % 3) + 1
                  ELSE (i - 1) * perLine + k])],
       lists, {})

PageTexts ==
  {PageText(n, per, kw, rep, lists) :
     n \in 0..MaxLines, per \in 0..2, kw \in {0, 1, 20}, rep \in BOOLEAN,
     lists \in PageMatches}

exVars == <<exPc, exText, exResearchers>>

\* lines 363-493: one call of extractResearcherContacts
EXExtract(text) ==
  /\ exPc = "idle"
  /\ exText' = text
  /\ exResearchers' = extractResearcherContacts(text)
  /\ exPc' = "done"

InitExtract ==
  /\ exPc = "idle"
  /\ exText = EmptyText
  /\ exResearchers = <<>>

\* searchArXivByAuthor (lines 271-314): the parsed papers, [] on any failure
ArxivCounts == {0, 2}
ArxivOutcomes ==
  {[kind |-> "throws", count |-> 0], [kind |-> "notok", count |-> 0]}
    \cup {[kind |-> "ok", count |-> c] : c \in ArxivCounts}

searchArXivByAuthor(outcome) ==
  IF outcome.kind = "ok" THEN [k \in 1..outcome.count |-> k] ELSE <<>>

\* findGoogleScholarProfile (lines 316-361): the completion throws, or its
\* trimmed text is "null", some other text, or a scholar.google.com URL
ScholarOutcomes == {"throws", "null", "other text", "scholar.google.com url"}

findGoogleScholarProfile(hasClient, outcome) ==
  IF ~hasClient THEN ""
  ELSE IF outcome = "scholar.google.com url" THEN "scholar link from AI"
  ELSE ""

\* The research-area completion (lines 535-551): it throws, has no content,
\* has content JSON.parse rejects, or parses to profileData.
AreaLists == {<<>>, <<"graph learning", "optimisation">>}
ProfileData ==
  {[hasAreas |-> a # <<"absent">>, research_areas |-> IF a = <<"absent">> THEN <<>> ELSE a,
    linkedin |-> l[1], researchgate |-> l[2]] :
     a \in AreaLists \cup {<<"absent">>},
     l \in {<<"", "">>, <<"linkedin link from AI", "researchgate link from AI">>}}
NoProfileData == [hasAreas |-> FALSE, research_areas |-> <<>>, linkedin |-> "",
                  researchgate |-> ""]
AreaOutcomes ==
  {[kind |-> k, data |-> NoProfileData] : k \in {"throws", "no content", "not json"}}
    \cup {[kind |-> "json", data |-> d] : d \in ProfileData}

\* lines 571-573
commonAreas ==
  <<"machine learning", "computer vision", "natural language processing",
    "artificial intelligence", "deep learning", "neural networks", "robotics",
    "quantum computing", "bioinformatics", "data science">>

\* the areas a paper context mentions
Contexts ==
  {{}, {"machine learning", "deep learning", "robotics", "data science"}}

\* lines 570-577
ContextAreas(mentions) ==
  slice(SelectSeq(commonAreas, LAMBDA area : area \in mentions), 3)

DocumentTexts ==
  {EmptyText}
    \cup UNION {{DocumentText(n, gs, li, rg, m) :
                   gs \in 0..n, li \in 0..n, rg \in 0..n, m \in Contexts} :
                n \in 0..MaxResearchers}

\* lines 499-512: the copy of the researcher after the paper search and the
\* scholar lookup, neither of which throws
BeforeAreas(researcher, hasClient, arxiv, scholar) ==
  LET e1 == [researcher EXCEPT
               !.arxiv_papers = searchArXivByAuthor(arxiv),
               !.paper_count = Len(searchArXivByAuthor(arxiv))]
  IN  IF e1.google_scholar = ""
      THEN [e1 EXCEPT !.google_scholar = findGoogleScholarProfile(hasClient, scholar)]
      ELSE e1

\* lines 515-580: the research-area completion and what it changes
WithAreas(e2, mentions, areas) ==
  IF areas.kind \in {"throws", "no content"}
  THEN e2
  ELSE IF areas.kind = "not json"
  THEN [e2 EXCEPT !.research_areas = ContextAreas(mentions)]
  ELSE [e2 EXCEPT
          !.research_areas = IF areas.data.hasAreas
                             THEN slice(areas.data.research_areas, 5)
                             ELSE e2.research_areas,
          !.linkedin = IF e2.linkedin = "" /\ areas.data.linkedin # ""
                       THEN areas.data.linkedin ELSE e2.linkedin,
          !.researchgate = IF e2.researchgate = "" /\ areas.data.researchgate # ""
                           THEN areas.data.researchgate ELSE e2.researchgate]

\* a throwing completion throws the copy away: the researcher goes on as it came
EnhanceDiscardOnFailure(researcher, hasClient, mentions, arxiv, scholar, areas) ==
  IF hasClient /\ areas.kind = "throws" THEN researcher
  ELSE IF ~hasClient THEN BeforeAreas(researcher, hasClient, arxiv, scholar)
  ELSE WithAreas(BeforeAreas(researcher, hasClient, arxiv, scholar), mentions, areas)

\* lines 498-583: one pass of the loop body for one researcher
Enhance(researcher, hasClient, mentions, arxiv, scholar, areas) ==
  IF ~hasClient THEN BeforeAreas(researcher, hasClient, arxiv, scholar)
  ELSE WithAreas(BeforeAreas(researcher, hasClient, arxiv, scholar), mentions, areas)

RECURSIVE InsertBeforeEqual(_, _)
\* r goes in front of the elements of equal paper_count
InsertBeforeEqual(sorted, r) ==
  IF Len(sorted) = 0 THEN <<r>>
  ELSE IF Head(sorted).paper_count > r.paper_count
       THEN <<Head(sorted)>> \o InsertBeforeEqual(Tail(sorted), r)
       ELSE <<r>> \o sorted

RECURSIVE InsertSorted(_, _)
\* r goes behind every element whose paper_count is not smaller
InsertSorted(sorted, r) ==
  IF Len(sorted) = 0 THEN <<r>>
  ELSE IF Head(sorted).paper_count >= r.paper_count
       THEN <<Head(sorted)>> \o InsertSorted(Tail(sorted), r)
       ELSE <<r>> \o sorted

RECURSIVE SortByPaperCount(_)
\* line 589: Array.prototype.sort with (a, b) => b.paper_count - a.paper_count,
\* a stable sort
SortByPaperCount(rs) ==
  IF Len(rs) = 0 THEN <<>>
  ELSE InsertSorted(SortByPaperCount(SubSeq(rs, 1, Len(rs) - 1)), rs[Len(rs)])

\* lines 495-498: enhanceResearcherInfo is called with the researchers
PEStart(researchers, mentions) ==
  /\ pePc = "idle"
  /\ peInput' = researchers
  /\ peContext' = mentions
  /\ enhancedResearchers' = <<>>
  /\ peLog' = <<>>
  /\ peIdx' = 1
  /\ IF Len(researchers) > 0
     THEN pePc' = "enhancing" /\ UNCHANGED peOutput
     ELSE pePc' = "done" /\ peOutput' = researchers

(***************************************************************************)
(* analyze-researchers: the route.                                         *)
(***************************************************************************)
HttpText == <<"h","t","t","p">>
PdfExtension == <<".","p","d","f">>

PdfUrls ==
  { <<>>,
    <<"f","t","p",":","/","/","h","/","a",".","p","d","f">>,
    <<"h","t","t","p",":","/","/","h","/","a",".","h","t","m","l">>,
    <<"h","t","t","p","/","/","h","/","a",".","p","d","f">>,
    <<"h","t","t","p",":","/","/","h","/","a",".","p","d","f">> }

\* fetch (line 253) takes http: and https: URLs; for any other it rejects
IsHttpUrl(url) ==
  startsWith(url, <<"h","t","t","p",":","/","/">>)
    \/ startsWith(url, <<"h","t","t","p","s",":","/","/">>)

\* how the document fetch can end
DocumentOutcomes ==
  {[kind |-> "throws", text |-> EmptyText], [kind |-> "notok", text |-> EmptyText]}
    \cup {[kind |-> "ok", text |-> t] : t \in DocumentTexts}

\* lines 251-269; hasText = FALSE: text is null
extractPDFFirstPage(outcome) ==
  IF outcome.kind = "throws"
  THEN [hasText |-> FALSE, text |-> EmptyText, error |-> "Error processing PDF"]
  ELSE IF outcome.kind = "notok"
  THEN [hasText |-> FALSE, text |-> EmptyText, error |-> "Failed to fetch PDF"]
  ELSE [hasText |-> TRUE, text |-> outcome.text, error |-> ""]

\* only the error is looked at
ErrorOnly(page) == page.error # ""

\* line 632: error || !text
DocumentUnusable(page) == page.error # "" \/ ~page.hasText \/ page.text.empty

NoAnalysisResponse == [status |-> 0, error |-> "", researchers |-> <<>>]
AnalysisError(code, msg) == [status |-> code, error |-> msg, researchers |-> <<>>]

\* lines 649-653
AnalysisResponse(rs) == [status |-> 200, error |-> "", researchers |-> rs]

\* lines 617-631: validation of the URL, then the document fetch
ARPost(url) ==
  /\ arPc = "idle"
  /\ pdfUrl' = url
  /\ IF url = <<>>
     THEN /\ arResponse' = AnalysisError(400, "No PDF URL provided")
          /\ arPc' = "done"
          /\ UNCHANGED arFetches
     ELSE IF ~startsWith(url, HttpText) \/ ~endsWith(url, PdfExtension)
     THEN /\ arResponse' = AnalysisError(400, "Invalid PDF URL")
          /\ arPc' = "done"
          /\ UNCHANGED arFetches
     ELSE /\ arFetches' = arFetches + 1
          /\ arPc' = "fetching"
          /\ UNCHANGED arResponse
  /\ UNCHANGED <<arDocument, arExtracted, peVars>>

\* lines 631-647: the document fetch ends; the text is checked, the
\* researchers are extracted and handed to enhanceResearcherInfo
ARFetched(outcome) ==
  /\ arPc = "fetching"
  /\ IsHttpUrl(pdfUrl) \/ outcome.kind = "throws"
  /\ arDocument' = IF outcome.kind # "ok" THEN outcome.kind
                   ELSE IF outcome.text.empty THEN "empty" ELSE "text"
  /\ LET page == extractPDFFirstPage(outcome)
     IN  IF DocumentUnusable(page)
         THEN /\ arResponse' =
                   AnalysisError(500, IF page.error # "" THEN page.error
                                      ELSE "Could not extract text from PDF")
              /\ arPc' = "done"
              /\ UNCHANGED <<arExtracted, peVars>>
         ELSE LET rs == extractResearcherContacts(page.text)
              IN  /\ arExtracted' = TRUE
                  /\ IF Len(rs) > 0
                     THEN /\ PEStart(rs, page.text.mentions)
                          /\ arPc' = "enhancing"
                          /\ UNCHANGED arResponse
                     ELSE /\ arResponse' = AnalysisResponse(rs)
                          /\ arPc' = "done"
                          /\ UNCHANGED peVars
  /\ UNCHANGED <<pdfUrl, arFetches>>

\* a researcher whose completion threw is not pushed
PushedInTry(list, failed, enhanced) ==
  IF failed THEN list ELSE Append(list, enhanced)

\* line 585, after the try block: enhancedResearchers.push(enhanced)
Pushed(list, failed, enhanced) == Append(list, enhanced)

\* lines 498-589 and 646-653: the loop body for the next researcher; after the
\* last one the sorted array is returned and the route answers with it
PEEnhance(arxiv, scholar, areas) ==
  /\ arPc = "enhancing"
  /\ pePc = "enhancing"
  /\ peLog' = Append(peLog,
       [papers |-> searchArXivByAuthor(arxiv),
        scholar |-> IF peInput[peIdx].google_scholar = ""
                    THEN findGoogleScholarProfile(client, scholar) ELSE "",
        failed |-> client /\ areas.kind = "throws"])
  /\ enhancedResearchers' =
       Pushed(enhancedResearchers, client /\ areas.kind = "throws",
              Enhance(peInput[peIdx], client, peContext, arxiv, scholar, areas))
  /\ peIdx' = peIdx + 1
  /\ IF peIdx' > Len(peInput)
     THEN /\ pePc' = "done"
          /\ peOutput' = SortByPaperCount(enhancedResearchers')
          /\ arResponse' = AnalysisResponse(peOutput')
          /\ arPc' = "done"
     ELSE UNCHANGED <<pePc, peOutput, arResponse, arPc>>
  /\ UNCHANGED <<peInput, peContext, pdfUrl, arFetches, arDocument, arExtracted>>

InitEnrich ==
  /\ arPc = "idle"
  /\ pdfUrl = <<>>
  /\ arFetches = 0
  /\ arDocument = ""
  /\ arExtracted = FALSE
  /\ arResponse = NoAnalysisResponse
  /\ pePc = "idle"
  /\ peInput = <<>>
  /\ peContext = {}
  /\ peIdx = 1
  /\ enhancedResearchers = <<>>
  /\ peOutput = <<>>
  /\ peLog = <<>>

(***************************************************************************)
(* google-scholar: the academic-citation batch route.                      *)
(***************************************************************************)
gsVars == <<serpApiKey, gsPc, gsInput, gsPending, gsOutcomes, gsResults, gsResponse>>

\* An element of the researchers array: a researcher object, with or without
\* a google_scholar_info of its own, or a JSON null.  "" is an absent or null
\* profile.
BatchElement(i) ==
  {[isObject |-> TRUE, name |-> i, google_scholar_info |-> info] :
     info \in {"", "profile sent by the caller"}}
    \cup {[isObject |-> FALSE, name |-> i, google_scholar_info |-> ""]}

BatchLists ==
  UNION {{l \in [1..n -> UNION {BatchElement(i) : i \in 1..n}] :
            \A i \in 1..n : l[i] \in BatchElement(i)} : n \in 0..MaxBatch}

\* searchGoogleScholar (lines 17-114) after the key check: the fetch throws,
\* answers non-2xx, answers without organic results, or with some.
\* the request body; a missing or non-array researchers has no elements
BatchPayloads ==
  {[isArray |-> FALSE, researchers |-> <<>>]}
    \cup {[isArray |-> TRUE, researchers |-> l] : l \in BatchLists}

LookupOutcomes == {"throws", "notok", "no results", "results"}

searchGoogleScholar(hasKey, outcome) ==
  IF ~hasKey THEN ""
  ELSE IF outcome = "results" THEN "profile from search"
  ELSE ""

\* lines 192-195: { ...researcher, google_scholar_info: scholarInfo }
Annotate(researcher, scholarInfo) ==
  [researcher EXCEPT !.google_scholar_info = scholarInfo]

NoBatchResponse == [status |-> 0, error |-> "", researchers |-> <<>>]
BatchError(code, msg) == [status |-> code, error |-> msg, researchers |-> <<>>]

\* line 207
BatchResponse(results) == [status |-> 200, error |-> "", researchers |-> results]

\* lines 179-205: validation, and the map callbacks up to their first await
GSPost(payload) ==
  /\ gsPc = "idle"
  /\ gsInput' = payload
  /\ IF ~payload.isArray
     THEN /\ gsResponse' = BatchError(400, "No researchers provided")
          /\ gsPc' = "done"
          /\ UNCHANGED <<gsPending, gsOutcomes, gsResults>>
     ELSE IF \E i \in 1..Len(payload.researchers) : ~payload.researchers[i].isObject
     THEN \* researcher.name throws in the callback and again in its catch;
          \* Promise.all rejects, the second request.json() at line 213 throws
          /\ gsResponse' = BatchError(500, "Internal server error")
          /\ gsPc' = "done"
          /\ UNCHANGED <<gsPending, gsOutcomes, gsResults>>
     ELSE IF ~serpApiKey \/ Len(payload.researchers) = 0
     THEN \* no callback awaits anything outside
          /\ gsResults' = [i \in 1..Len(payload.researchers) |->
                             Annotate(payload.researchers[i], searchGoogleScholar(FALSE, "throws"))]
          /\ gsResponse' = BatchResponse(gsResults')
          /\ gsPc' = "done"
          /\ gsPending' = {}
          /\ gsOutcomes' = [i \in 1..Len(payload.researchers) |-> "no key"]
     ELSE /\ gsPending' = 1..Len(payload.researchers)
          /\ gsOutcomes' = [i \in 1..Len(payload.researchers) |-> ""]
          /\ gsResults' = payload.researchers
          /\ gsPc' = "waiting"
          /\ UNCHANGED gsResponse
  /\ UNCHANGED serpApiKey

\* the values are collected in the order the lookups settle
StoreInSettleOrder(results, i, value) ==
  [results EXCEPT ![Len(results) - Cardinality(gsPending) + 1] = value]

\* Promise.all (line 188): the value of the i-th promise is the i-th result
StoreResult(results, i, value) == [results EXCEPT ![i] = value]

\* lines 43-114, 191-195: the lookup of position i settles; when it is the
\* last one, Promise.all resolves and the route answers
GSSettle(i, outcome) ==
  /\ gsPc = "waiting"
  /\ i \in gsPending
  /\ gsPending' = gsPending \ {i}
  /\ gsOutcomes' = [gsOutcomes EXCEPT ![i] = outcome]
  /\ gsResults' = StoreResult(gsResults, i,
                              Annotate(gsInput.researchers[i], searchGoogleScholar(TRUE, outcome)))
  /\ IF gsPending' = {}
     THEN gsResponse' = BatchResponse(gsResults') /\ gsPc' = "done"
     ELSE UNCHANGED <<gsResponse, gsPc>>
  /\ UNCHANGED <<serpApiKey, gsInput>>

InitScholar ==
  /\ serpApiKey \in BOOLEAN
  /\ gsPc = "idle"
  /\ gsInput = [isArray |-> FALSE, researchers |-> <<>>]
  /\ gsPending = {}
  /\ gsOutcomes = <<>>
  /\ gsResults = <<>>
  /\ gsResponse = NoBatchResponse

(***************************************************************************)
(* page.tsx: the favorites list of the Home component.                     *)
(***************************************************************************)
fvVars == <<selectedResearchers, renderedSelected>>

\* the researchers that can be dragged; "" is an undefined institution
Draggables == [name : {"Ada", "Bo"}, institution : {"", "MIT"}]

\* what dataTransfer.getData("researcher") gives a drop: nothing, text that
\* JSON.parse rejects, or a researcher
DropData ==
  {[kind |-> k, researcher |-> [name |-> "", institution |-> ""]] : k \in {"empty", "invalid"}}
    \cup {[kind |-> "researcher", researcher |-> r] : r \in Draggables}

\* lines 190-192 and 213-216: the key of the list
SameResearcher(a, b) == a.name = b.name /\ a.institution = b.institution

\* lines 179-208: handleDrop.  The membership test reads the list of the
\* render the handler belongs to; the append is a functional update of the
\* state.
handleDrop(data) ==
  /\ Len(selectedResearchers) < MaxFavorites
  /\ IF data.kind # "researcher"
     THEN UNCHANGED selectedResearchers
     ELSE IF \E i \in 1..Len(renderedSelected) :
               SameResearcher(renderedSelected[i], data.researcher)
     THEN UNCHANGED selectedResearchers
     ELSE selectedResearchers' = Append(selectedResearchers, data.researcher)
  /\ UNCHANGED renderedSelected

\* lines 210-221: removeFromFavorites, a functional update; the button belongs
\* to an item of the rendered list (line 685)
removeFromFavorites(i) ==
  /\ i \in 1..Len(renderedSelected)
  /\ selectedResearchers' =
       SelectSeq(selectedResearchers,
                 LAMBDA selected : ~SameResearcher(selected, renderedSelected[i]))
  /\ UNCHANGED renderedSelected

\* the component renders again with the current state, and its handlers
\* replace the ones in place
FVRender ==
  /\ renderedSelected # selectedResearchers
  /\ renderedSelected' = selectedResearchers
  /\ UNCHANGED selectedResearchers

InitFavorites ==
  /\ selectedResearchers = <<>>
  /\ renderedSelected = <<>>

(***************************************************************************)
(* page.tsx: searchPapers and analyzeResearchers of the Home component.    *)
(* The console log and the error banner are display state that no handler   *)
(* reads; they are left out.                                               *)
(***************************************************************************)
pgVars == <<loading, searchResults, paperAnalysisResults, expandedPapers,
            analyzingPaper, analyses>>

PaperIds == {"P", "Q"}

NullResults == [isNull |-> TRUE, papers |-> {}]

\* the answer of /api/search-papers: a failure, or the papers found
SearchAnswers ==
  {[ok |-> FALSE, papers |-> {}]}
    \cup {[ok |-> TRUE, papers |-> ps] : ps \in {{}, {"P"}, {"P", "Q"}}}

\* a researcher as /api/analyze-researchers returns it: no google_scholar_info
Extracted(i) == [isObject |-> TRUE, name |-> i, google_scholar_info |-> ""]

\* the answer of /api/analyze-researchers: a failure, or the researchers
AnalyzeAnswers ==
  {[ok |-> FALSE, researchers |-> <<>>]}
    \cup {[ok |-> TRUE, researchers |-> rs] :
            rs \in {<<>>, <<Extracted(1)>>, <<Extracted(1), Extracted(2)>>}}

\* the answer of /api/google-scholar: the fetch throws, a non-2xx answer, or
\* per researcher what its lookup brought
ScholarAnswers ==
  {[kind |-> k, lookups |-> <<>>] : k \in {"throws", "notok"}}
    \cup {[kind |-> "ok", lookups |-> l] :
            l \in UNION {[1..n -> {"no results", "results"}] : n \in 1..2}}

\* an analyzeResearchers call in flight: its paperId, where it waits
\* ("analyze": line 411, "scholar": line 447), its data.researchers, and
\* whether searchPapers has reset the results since it started (history)
Call(paperId, pc, researchers, launchedBeforeReset) ==
  [paperId |-> paperId, pc |-> pc, researchers |-> researchers,
   launchedBeforeReset |-> launchedBeforeReset]

Calls == BagToSet(analyses)

\* every call in flight seen from after a reset
AfterReset(calls) ==
  LET old(c) == Call(c.paperId, c.pc, c.researchers, TRUE)
      new(c) == Call(c.paperId, c.pc, c.researchers, FALSE)
      count(c) == IF BagIn(c, calls) THEN CopiesIn(c, calls) ELSE 0
  IN [c \in {old(d) : d \in BagToSet(calls)} |-> count(c) + count(new(c))]

\* lines 323-347: searchPapers up to its first await.  The Search button is
\* disabled while loading (line 925).
PGSearch(text) ==
  /\ ~loading
  /\ IF text = ""
     THEN UNCHANGED <<loading, searchResults, paperAnalysisResults, expandedPapers,
                      analyses>>
     ELSE /\ loading' = TRUE
          /\ searchResults' = NullResults
          /\ paperAnalysisResults' = <<>>
          /\ expandedPapers' = {}
          /\ analyses' = AfterReset(analyses)
  /\ UNCHANGED analyzingPaper

\* lines 350-390: the search answer arrives
PGSearched(answer) ==
  /\ loading
  /\ searchResults' = IF answer.ok THEN [isNull |-> FALSE, papers |-> answer.papers]
                      ELSE searchResults
  /\ loading' = FALSE
  /\ UNCHANGED <<paperAnalysisResults, expandedPapers, analyzingPaper, analyses>>

\* lines 393-411: analyzeResearchers up to the analyze request.  The button of
\* a listed paper is disabled while analyzingPaper is its id (line 1152).
PGAnalyze(paperId) ==
  /\ ~searchResults.isNull
  /\ paperId \in searchResults.papers
  /\ analyzingPaper # paperId
  /\ BagCardinality(analyses) < MaxInFlight
  /\ analyzingPaper' = paperId
  /\ analyses' = analyses (+) SetToBag({Call(paperId, "analyze", <<>>, FALSE)})
  /\ UNCHANGED <<loading, searchResults, paperAnalysisResults, expandedPapers>>

\* lines 482-487: the result is stored under the call's paperId and the
\* paper is unfolded
Store(call, researchers) ==
  /\ paperAnalysisResults' =
       [p \in DOMAIN paperAnalysisResults \cup {call.paperId} |->
          IF p = call.paperId
          THEN [researchers |-> researchers,
                launchedBeforeReset |-> call.launchedBeforeReset]
          ELSE paperAnalysisResults[p]]
  /\ expandedPapers' = expandedPapers \cup {call.paperId}

\* line 497: finally, the call returns
Return(call) ==
  /\ analyzingPaper' = ""
  /\ analyses' = analyses (-) SetToBag({call})

\* lines 419-438: the analyze answer arrives
PGAnalyzed(call, answer) ==
  /\ BagIn(call, analyses)
  /\ call.pc = "analyze"
  /\ IF ~answer.ok
     THEN /\ Return(call)
          /\ UNCHANGED <<paperAnalysisResults, expandedPapers>>
     ELSE IF Len(answer.researchers) = 0
     THEN /\ Store(call, answer.researchers)
          /\ Return(call)
     ELSE /\ analyses' =
               (analyses (-) SetToBag({call}))
                 (+) SetToBag({Call(call.paperId, "scholar", answer.researchers,
                                    call.launchedBeforeReset)})
          /\ UNCHANGED <<paperAnalysisResults, expandedPapers, analyzingPaper>>
  /\ UNCHANGED <<loading, searchResults>>

\* lines 455-457: data.researchers after the google-scholar answer
WithScholar(researchers, hasKey, answer) ==
  IF answer.kind = "ok"
  THEN [i \in 1..Len(researchers) |->
          Annotate(researchers[i], searchGoogleScholar(hasKey, answer.lookups[i]))]
  ELSE researchers

\* lines 447-497: the google-scholar answer arrives
PGScholar(call, answer) ==
  /\ BagIn(call, analyses)
  /\ call.pc = "scholar"
  /\ answer.kind = "ok" => Len(answer.lookups) = Len(call.researchers)
  /\ Store(call, WithScholar(call.researchers, serpApiKey, answer))
  /\ Return(call)
  /\ UNCHANGED <<loading, searchResults>>

\* lines 1201-1227: the researchers listed under an unfolded paper
ShownResearchers(paperId) ==
  SelectSeq(paperAnalysisResults[paperId].researchers,
            LAMBDA researcher : researcher.google_scholar_info # "")

InitPage ==
  /\ loading = FALSE
  /\ searchResults = NullResults
  /\ paperAnalysisResults = <<>>
  /\ expandedPapers = {}
  /\ analyzingPaper = ""
  /\ analyses = EmptyBag

InitSearch ==
  /\ client \in BOOLEAN
  /\ spPc = "idle"
  /\ spQuery = <<>>
  /\ spFilters = [maxResults |-> DefaultMaxResults, duration |-> DefaultDuration,
                  categories |-> <<>>]
  /\ searchQuery = <<>>
  /\ cutoffDate = NullCutoff
  /\ papers = <<>>
  /\ spRequests = <<>>
  /\ spResponse = NoResponse

NextSearch ==
  \/ \E q \in Queries, f \in FilterInputs, ai \in AIOutcomes :
       SPPost(q, f, ai) /\ UNCHANGED <<crVars, peVars, arVars, gsVars, qtVars, adVars, exVars, pgVars, fvVars>>
  \/ \E o \in FetchOutcomes, now \in NowValues :
       SPPrimary(o, now) /\ UNCHANGED <<crVars, peVars, arVars, gsVars, qtVars, adVars, exVars, pgVars, fvVars>>
  \/ \E o \in FetchOutcomes : SPFallback(o) /\ UNCHANGED <<crVars, peVars, arVars, gsVars, qtVars, adVars, exVars, pgVars, fvVars>>
  \/ \E o \in FetchOutcomes : SPSimple(o) /\ UNCHANGED <<crVars, peVars, arVars, gsVars, qtVars, adVars, exVars, pgVars, fvVars>>

NextContact ==
  \/ \E r \in ResearcherInputs : CRPost(r) /\ UNCHANGED <<spVars, peVars, arVars, gsVars, qtVars, adVars, exVars, pgVars, fvVars>>
  \/ \E a \in TaskAnswers : CRSubmitted(a) /\ UNCHANGED <<spVars, peVars, arVars, gsVars, qtVars, adVars, exVars, pgVars, fvVars>>
  \/ \E a \in StatusAnswers : CRPoll(a) /\ UNCHANGED <<spVars, peVars, arVars, gsVars, qtVars, adVars, exVars, pgVars, fvVars>>

NextEnrich ==
  \/ \E url \in PdfUrls : ARPost(url) /\ UNCHANGED <<spVars, crVars, gsVars, qtVars, adVars, exVars, pgVars, fvVars>>
  \/ \E o \in DocumentOutcomes :
       ARFetched(o) /\ UNCHANGED <<spVars, crVars, gsVars, qtVars, adVars, exVars, pgVars, fvVars>>
  \/ \E a \in ArxivOutcomes, g \in ScholarOutcomes, r \in AreaOutcomes :
       PEEnhance(a, g, r) /\ UNCHANGED <<spVars, crVars, gsVars, qtVars, adVars, exVars, pgVars, fvVars>>

NextScholar ==
  \/ \E payload \in BatchPayloads :
       GSPost(payload) /\ UNCHANGED <<spVars, crVars, peVars, arVars, qtVars, adVars, exVars, pgVars, fvVars>>
  \/ \E i \in 1..MaxBatch + 1, o \in LookupOutcomes :
       GSSettle(i, o) /\ UNCHANGED <<spVars, crVars, peVars, arVars, qtVars, adVars, exVars, pgVars, fvVars>>

NextTranslate ==
  \E q \in TranslatorTexts, ai \in AIOutcomes :
    QTTranslate(q, ai) /\ UNCHANGED <<spVars, crVars, peVars, arVars, gsVars, adVars, exVars, pgVars, fvVars>>

NextAdapter ==
  /\ adPc = "idle"
  /\ \E f \in Feeds, d \in FeedDurations, now \in NowValues :
       ADParse(f, d, now)
         /\ UNCHANGED <<spVars, crVars, peVars, arVars, gsVars, qtVars, exVars, pgVars, fvVars>>

NextExtract ==
  /\ exPc = "idle"
  /\ \E t \in PageTexts :
       EXExtract(t) /\ UNCHANGED <<spVars, crVars, peVars, arVars, gsVars, qtVars, adVars, pgVars, fvVars>>

NextFavorites ==
  \/ \E d \in DropData :
       handleDrop(d) /\ UNCHANGED <<spVars, crVars, peVars, arVars, gsVars, qtVars, adVars, exVars, pgVars>>
  \/ \E i \in 1..MaxFavorites :
       removeFromFavorites(i) /\ UNCHANGED <<spVars, crVars, peVars, arVars, gsVars, qtVars, adVars, exVars, pgVars>>
  \/ FVRender /\ UNCHANGED <<spVars, crVars, peVars, arVars, gsVars, qtVars, adVars, exVars, pgVars>>

NextPage ==
  \/ \E t \in {"", "topic"} :
       PGSearch(t) /\ UNCHANGED <<spVars, crVars, peVars, arVars, gsVars, qtVars, adVars, exVars, fvVars>>
  \/ \E a \in SearchAnswers :
       PGSearched(a) /\ UNCHANGED <<spVars, crVars, peVars, arVars, gsVars, qtVars, adVars, exVars, fvVars>>
  \/ \E p \in PaperIds :
       PGAnalyze(p) /\ UNCHANGED <<spVars, crVars, peVars, arVars, gsVars, qtVars, adVars, exVars, fvVars>>
  \/ \E c \in Calls, a \in AnalyzeAnswers :
       PGAnalyzed(c, a) /\ UNCHANGED <<spVars, crVars, peVars, arVars, gsVars, qtVars, adVars, exVars, fvVars>>
  \/ \E c \in Calls, a \in ScholarAnswers :
       PGScholar(c, a) /\ UNCHANGED <<spVars, crVars, peVars, arVars, gsVars, qtVars, adVars, exVars, fvVars>>

vars == <<spVars, crVars, peVars, arVars, gsVars, qtVars, adVars, exVars, pgVars, fvVars>>

Init ==
  /\ InitSearch /\ InitContact /\ InitEnrich /\ InitScholar
  /\ InitTranslate /\ InitAdapter /\ InitExtract
  /\ InitPage /\ InitFavorites

Next ==
  \/ NextSearch \/ NextContact \/ NextEnrich \/ NextScholar
  \/ NextTranslate \/ NextAdapter \/ NextExtract
  \/ NextPage \/ NextFavorites

Spec == Init /\ [][Next]_vars

\* One route at a time: requests share no state, so each route is also
\* checked on its own, the other routes idle and their keys unset.
SearchAlone == Init /\ ~browserUseToken /\ ~serpApiKey
ContactAlone == Init /\ ~client /\ ~serpApiKey
EnrichAlone == Init /\ ~browserUseToken /\ ~serpApiKey
ScholarAlone == Init /\ ~client /\ ~browserUseToken
TranslateAlone == Init /\ ~browserUseToken /\ ~serpApiKey
AdapterAlone == Init /\ ~client /\ ~browserUseToken /\ ~serpApiKey
ExtractAlone == Init /\ ~client /\ ~browserUseToken /\ ~serpApiKey
PageAlone == Init /\ ~client /\ ~browserUseToken
FavoritesAlone == Init /\ ~client /\ ~browserUseToken /\ ~serpApiKey

SpecSearch == SearchAlone /\ [][NextSearch]_vars
SpecContact == ContactAlone /\ [][NextContact]_vars
FairContact == SpecContact /\ WF_vars(NextContact)
SpecEnrich == EnrichAlone /\ [][NextEnrich]_vars
SpecScholar == ScholarAlone /\ [][NextScholar]_vars
SpecTranslate == TranslateAlone /\ [][NextTranslate]_vars
SpecAdapter == AdapterAlone /\ [][NextAdapter]_vars
SpecExtract == ExtractAlone /\ [][NextExtract]_vars
SpecPage == PageAlone /\ [][NextPage]_vars
SpecFavorites == FavoritesAlone /\ [][NextFavorites]_vars

(***************************************************************************)
(* Properties of the search-papers route.                                  *)
(***************************************************************************)
\* published >= cutoff, as instants
OnOrAfter(published, cutoff) == published.valid /\ published.t >= cutoff.t

\* C1: for every duration other than "all", every paper of a successful
\* response is published on or after the cutoff computed from the duration,
\* whichever tier produced it.
C1_ReturnedPapersOnOrAfterCutoff ==
  (spPc = "done" /\ spResponse.status = 200 /\ spFilters.duration # "all") =>
    \A i \in 1..Len(spResponse.papers) :
      OnOrAfter(spResponse.papers[i].published, cutoffDate)

\* the three strategies of a request, in order
Ladder == <<searchQuery, generateFallbackQuery(trim(spQuery)), CatLG>>

\* C2: the requests issued are the primary, the fallback and the cat:cs.LG
\* query in this order; a later request is outstanding only while the papers
\* left by the earlier tiers are zero, a tier that left zero papers is
\* followed by the next one, and an empty success comes after all three.
C2_LadderOrder ==
  /\ Len(spRequests) <= 3
  /\ spRequests = SubSeq(Ladder, 1, Len(spRequests))
  /\ (spPc \in {"fallback", "simple"} => papers = <<>>)
  /\ (spPc = "done" /\ spResponse.status = 200 /\ Len(spRequests) < 3
        => spResponse.papers # <<>>)
  /\ (spPc = "done" /\ spResponse.status = 200 /\ spResponse.papers = <<>>
        => Len(spRequests) = 3)

\* an empty success after the three tiers
C2_Witness ==
  /\ spPc = "done" /\ spResponse.status = 200 /\ spResponse.papers = <<>>
  /\ Len(spRequests) = 3

\* C10: a request with a non-empty query ends with a success response, also
\* when a paper-repository call fails.
C10_FetchFailureAbsorbed ==
  (spPc = "done" /\ trim(spQuery) # <<>>) =>
    (spResponse.status = 200 /\ spResponse.body = "papers")

\* C28: the query of a 200 answer with papers is the search_query of the fetch
\* that brought them: the last one issued, since each later tier is tried only
\* while papers is empty.
C28_QueryNamesProducingTier ==
  (spPc = "done" /\ spResponse.status = 200 /\ Len(spResponse.papers) > 0) =>
    spResponse.query = spRequests[Len(spRequests)]

(***************************************************************************)
(* Properties of the Query Translator.                                     *)
(***************************************************************************)
\* the completion gave a usable translation
Translated(c) == c.called /\ ~c.throws /\ trim(c.content) # <<>>

\* C13: every call of generateAISearchQuery returns a non-empty query: the
\* trimmed completion when there is one, and the fallback query of the text
\* when the client is missing, the completion throws or its text is empty.
C13_TranslatorAlwaysAnswers ==
  \A i \in 1..Len(qtCalls) :
    /\ Len(qtCalls[i].result) > 0
    /\ qtCalls[i].result =
         IF Translated(qtCalls[i]) THEN trim(qtCalls[i].content)
         ELSE generateFallbackQuery(qtCalls[i].query)

\* a completion of blanks only was replaced by the fallback query
C13_Witness ==
  \E i \in 1..Len(qtCalls) :
    /\ qtCalls[i].called /\ ~qtCalls[i].throws /\ qtCalls[i].content = <<" ">>
    /\ qtCalls[i].result = CatCL

\* C14 as stated: without the AI service "graph neural networks" is
\* translated into cat:cs.LG.
C14_GraphNeuralNetworksIsCatLG ==
  \A i \in 1..Len(qtCalls) :
    (qtCalls[i].query = GraphNeuralNetworks /\ ~Translated(qtCalls[i])) =>
      qtCalls[i].result = CatLG

\* C14 as amended: without the AI service "graph neural networks" matches no
\* keyword of the table and is translated into all:"graph neural networks".
C14_GraphNeuralNetworksIsAllFields ==
  \A i \in 1..Len(qtCalls) :
    (qtCalls[i].query = GraphNeuralNetworks /\ ~Translated(qtCalls[i])) =>
      qtCalls[i].result =
        <<"a","l","l",":","\"","g","r","a","p","h"," ","n","e","u","r","a","l"," ","n","e","t","w","o","r","k","s","\"">>

\* "graph neural networks" was translated without a client
C14_Witness ==
  \E i \in 1..Len(qtCalls) :
    qtCalls[i].query = GraphNeuralNetworks /\ ~qtCalls[i].called

(***************************************************************************)
(* Properties of the Paper Source Adapter.                                 *)
(***************************************************************************)
\* the entries that carry title, summary, published and id and pass the cutoff
Emitted ==
  {i \in 1..Len(adEntries) :
     /\ adEntries[i].missing = "none"
     /\ ~(adCutoff.set /\ adEntries[i].published.t < adCutoff.t)}

\* C17: the adapter emits exactly one paper for each entry that has the four
\* fields and passes the cutoff, in the order of the response, and skips the
\* other entries; three such entries and one entry lacking a field give
\* exactly three papers.
C17_OnePaperPerWellFormedEntry ==
  adPc = "done" =>
    /\ Len(adPapers) = Cardinality(Emitted)
    /\ \A k \in 1..Len(adPapers) :
         /\ adPapers[k].index \in Emitted
         /\ adPapers[k].published = adEntries[adPapers[k].index].published
    /\ \A k, l \in 1..Len(adPapers) : k < l => adPapers[k].index < adPapers[l].index
    /\ (Len(adEntries) = 4 /\ Cardinality(Emitted) = 3
          /\ \E i \in 1..4 : adEntries[i].missing # "none")
         => Len(adPapers) = 3

\* three well-formed entries around one without an id gave three papers
C17_Witness ==
  /\ adPc = "done" /\ Len(adEntries) = 4 /\ adCutoff.set
  /\ adEntries[2].missing = "id"
  /\ \A i \in {1, 3, 4} : adEntries[i].missing = "none"
  /\ Len(adPapers) = 3

(***************************************************************************)
(* Properties of the Contact Resolver.                                     *)
(***************************************************************************)
\* C3: extractContactDetails returns in every execution, whatever the status
\* requests answer, and never issues more than 24 of them.
C3_PollingTerminates ==
  /\ <>(crPc = "done")
  /\ [](crPolls <= 24)

\* 24 status requests were issued and the function returned
C3_Witness == crPc = "done" /\ crPolls = 24 /\ crAnswer = "notok"

\* all attempts elapsed and the last status request brought no terminal status
Exhausted ==
  /\ crPc = "done"
  /\ attempts = 24
  /\ \/ crAnswer = "notok"
     \/ crAnswer = "ok" /\ crStatus \in {"", "running"}

\* C4: when the 24 attempts elapse without a terminal status the caller gets
\* the timeout answer (408 with the timeout message), which is neither the
\* hard-failure answer (500) given for a null result nor a contacts answer (200).
C4_TimeoutIsDistinct ==
  /\ Exhausted =>
       /\ crResponse.status = 408
       /\ crResponse.error = "Contact extraction timed out"
       /\ crResponse.contacts.isNull
  /\ (crPc = "done" /\ crAnswer # "none" /\ crStatus \in {"failed", "error", "cancelled"})
       => crResponse.status = 500
  /\ crResponse.status = 200 => ~Exhausted /\ ~crResponse.contacts.isNull

C4_Witness == Exhausted /\ crStatus = "running"

\* C5: a polled status of failed, error or cancelled ends the polling at once
\* (the route has answered, nothing is in flight) with one and the same
\* failure answer.
C5_FailureStatusesUniform ==
  (crAnswer = "ok" /\ crStatus \in {"failed", "error", "cancelled"}) =>
    /\ crPc = "done"
    /\ crPolls = attempts
    /\ extractedContacts = NullContacts
    /\ crResponse = ContactError(500, "Failed to extract contact details")

C5_Witness == crStatus = "cancelled" /\ crPc = "done" /\ crPolls = 3

\* C11: without the browser-automation credential a request that has a
\* profile URL issues no request to the service, gets a null result, and is
\* answered differently from a request whose task ran and failed.
C11_DisabledIsDistinct ==
  (crPc = "done" /\ ~browserUseToken /\ profileUrl # "") =>
    /\ crSubmits = 0
    /\ crPolls = 0
    /\ extractedContacts.isNull
    /\ crResponse # ContactError(500, "Failed to extract contact details")

\* C12: the profile URL is the enrichment profile's link when the researcher
\* has one and the raw stored link otherwise; it is the URL a submitted task
\* and a contacts answer carry; a researcher with neither link is answered
\* 400 at once and no task is submitted.
C12_ProfileLinkPreference ==
  (crPc # "idle" /\ crResearcher.present /\ crResearcher.hasName) =>
    /\ crResearcher.profile_link # "" => profileUrl = crResearcher.profile_link
    /\ crResearcher.profile_link = "" => profileUrl = crResearcher.google_scholar
    /\ crSubmits > 0 => profileUrl # ""
    /\ crResponse.status = 200 => crResponse.source_url = profileUrl
    /\ (crResearcher.profile_link = "" /\ crResearcher.google_scholar = "") =>
         /\ crPc = "done"
         /\ crResponse.status = 400
         /\ crSubmits = 0
         /\ crPolls = 0

\* a researcher with both links was answered with contacts from the profile's link
C12_Witness ==
  /\ crPc = "done" /\ crResponse.status = 200
  /\ crResearcher.profile_link # "" /\ crResearcher.google_scholar # ""
  /\ crResponse.source_url = "info link"

\* the task's last answer looked at was a completed one: the run-task answer
\* when no status request was issued, the last status answer otherwise
CompletedAnswer ==
  \/ crPolls = 0 /\ taskData.kind = "ok" /\ taskData.status \in {"completed", "success"}
  \/ crPolls > 0 /\ crAnswer = "ok" /\ crStatus \in {"completed", "success"}

HasStructuredOutput == structuredOutput.kind \in {"object", "badjson"}
HasTextOutput == textOutput \notin {"", "unread"}

ContactsOutcome ==
  crResponse.status = 200 /\ ~crResponse.contacts.isNull /\ crResponse.error = ""
FailureOutcome ==
  crResponse.status \in {400, 500} /\ crResponse.contacts.isNull /\ crResponse.error # ""
TimeoutOutcome ==
  crResponse.status = 408 /\ crResponse.contacts.isNull /\ crResponse.error # ""

\* C21: an answered contact-extraction request has exactly one of three
\* outcomes: contacts, a failure indicator, a timeout indicator.  Contacts are
\* answered only for a completed task that carried structured or text output;
\* a status answer of a completed task with no output at all is answered as a
\* failure, while one whose text holds no contact pattern is answered with
\* contacts that have no fields.
C21_ExactlyOneOutcome ==
  crPc = "done" =>
    /\ ContactsOutcome \/ FailureOutcome \/ TimeoutOutcome
    /\ ~(ContactsOutcome /\ FailureOutcome)
    /\ ~(ContactsOutcome /\ TimeoutOutcome)
    /\ ~(FailureOutcome /\ TimeoutOutcome)
    /\ ContactsOutcome =>
         /\ CompletedAnswer
         /\ HasStructuredOutput \/ HasTextOutput
    /\ (crPolls > 0 /\ CompletedAnswer /\ ~HasStructuredOutput /\ ~HasTextOutput) =>
         /\ FailureOutcome
         /\ crResponse.status = 500
    /\ (CompletedAnswer /\ textOutput = "no contact patterns") =>
         /\ ContactsOutcome
         /\ crResponse.contacts.fields = {}

\* a polled task completed without any output and was answered as a failure
C21_Witness ==
  /\ crPc = "done" /\ crPolls > 0 /\ CompletedAnswer
  /\ structuredOutput.kind = "absent" /\ textOutput = ""
  /\ crResponse.status = 500

\* the run-task answer carries the result: an ok answer with a task id, a
\* completed status and structured or text output
SyncResult ==
  /\ taskData.kind = "ok" /\ taskData.taskId
  /\ taskData.status \in {"completed", "success"}
  /\ HasStructuredOutput \/ HasTextOutput

\* C23: from submitted, a run-task answer that carries the result ends the
\* request without any status request; every other answer with a task id,
\* also a completed one without output, leads into polling; an answer that
\* failed or has no task id ends the request, and no status request is ever
\* issued after such an answer.
C23_SubmittedStateMachine ==
  /\ [][crPc = "submitted" =>
          /\ SyncResult' =>
               /\ crPc' = "done"
               /\ crPolls' = 0
               /\ extractedContacts' = CompletedOutput(
                     [structured |-> structuredOutput',
                      text |-> IF textOutput' = "unread" THEN "" ELSE textOutput']).result
          /\ (taskData'.kind = "ok" /\ taskData'.taskId /\ ~SyncResult') =>
               /\ crPc' = "polling"
               /\ attempts' = 0
          /\ (taskData'.kind # "ok" \/ ~taskData'.taskId) =>
               /\ crPc' = "done"
               /\ extractedContacts'.isNull]_vars
  /\ [](crPolls > 0 => taskData.kind = "ok" /\ taskData.taskId /\ crSubmits = 1)
  /\ []((crPc = "done" /\ crPolls > 0) => crAnswer # "none")

\* a completed run-task answer without output led into polling and a status
\* request was issued
C23_Witness ==
  /\ taskData.kind = "ok" /\ taskData.status = "completed"
  /\ crPolls = 1 /\ crPc = "polling"

\* C26: a status request answered non-2xx uses up one attempt and the loop
\* goes on while attempts remain; the loop ends only with a completed status,
\* a failure status, a status request that threw (answered as a failure, not
\* as a timeout), or after 24 attempts.
C26_Non2xxConsumesAttempt ==
  /\ [][(crPc = "polling" /\ crPolls' = crPolls + 1 /\ crAnswer' = "notok") =>
          /\ attempts' = attempts + 1
          /\ attempts' < 24 => crPc' = "polling"
          /\ attempts' = 24 => (crPc' = "done" /\ crResponse'.status = 408)]_vars
  /\ []((crPc = "done" /\ crPolls > 0) =>
          \/ crAnswer = "ok" /\ crStatus \in {"completed", "success"}
          \/ crAnswer = "ok" /\ crStatus \in {"failed", "error", "cancelled"}
          \/ crAnswer = "throws" /\ crResponse.status = 500
          \/ attempts = 24)

\* polling went on after five status requests, the last answered non-2xx
C26_Witness ==
  crPc = "polling" /\ crAnswer = "notok" /\ attempts = 5 /\ crPolls = 5

\* C27: the route answers 408 only when the 24 attempts elapsed without a
\* terminal status, and never for a completed task with structured output.
C27_TimeoutOnlyOnExhaustion ==
  crPc = "done" =>
    /\ crResponse.status = 408 => Exhausted
    /\ (CompletedAnswer /\ structuredOutput.kind = "object") => crResponse.status # 408

(***************************************************************************)
(* Properties of the Author/Contact Extractor.                             *)
(***************************************************************************)
\* the names that the lines within the scan limit hold
CandidateNames ==
  UNION {{exText.lines[i].names[k] : k \in 1..Len(exText.lines[i].names)} :
           i \in 1..Len(exText.lines)}

\* C16: extractResearcherContacts returns at most 10 researcher records,
\* whatever the text and however many candidate names it holds.
C16_AtMostTenResearchers ==
  exPc = "done" => Len(exResearchers) <= 10

\* a text with more than ten distinct names gave ten records
C16_Witness ==
  /\ exPc = "done"
  /\ Cardinality(CandidateNames) > 10
  /\ Len(exResearchers) = 10

\* the record holds the value: in one of its paired fields, as it stands or
\* behind https://, or among its additional contacts
HoldsValue(researcher, value) ==
  \/ value \in {researcher.email, researcher.orcid, researcher.institution}
  \/ \E link \in {researcher.linkedin, researcher.google_scholar, researcher.researchgate} :
       /\ link # ""
       /\ value \in {"linkedin.com/in/a", "linkedin.com/in/b", "linkedin.com/in/c",
                     "scholar.google.com/citations?user=a",
                     "scholar.google.com/citations?user=b",
                     "scholar.google.com/citations?user=c",
                     "researchgate.net/profile/a", "researchgate.net/profile/b",
                     "researchgate.net/profile/c"}
       /\ link = Https(value)
  \/ \E k \in 1..Len(researcher.additional_contacts) :
       /\ researcher.additional_contacts[k].kind = "Email"
       /\ researcher.additional_contacts[k].value = value

\* the values of the six paired lists
PairedValues ==
  LET l == exText.lists
      elems(list) == {list[k] : k \in 1..Len(list)}
  IN  elems(l.emails) \cup elems(l.orcids) \cup elems(l.institutions)
        \cup elems(l.linkedinProfiles) \cup elems(l.scholarProfiles)
        \cup elems(l.researchgateProfiles)

\* the i-th record has the i-th element of the list in the field, "" when the
\* list has no i-th element
Paired(field, list) ==
  \A i \in 1..Len(exResearchers) :
    IF i <= Len(list) THEN field[i] = list[i] ELSE field[i] = ""

\* the same for a link list, whose element is prefixed with https://
PairedLink(field, list) ==
  \A i \in 1..Len(exResearchers) :
    IF i <= Len(list) THEN field[i] = Https(list[i]) ELSE field[i] = ""

\* the records are in the order in which the scan first meets their names
InCollectionOrder ==
  \A i, j \in 1..Len(exResearchers) :
    i < j =>
      \E a \in Matches(exText.lines) :
        /\ exText.lines[a[1]].names[a[2]] = exResearchers[i].name
        /\ \A b \in Matches(exText.lines) :
             exText.lines[b[1]].names[b[2]] = exResearchers[j].name => MetBefore(a, b)

PositionalPairing ==
  LET l == exText.lists
      rs == exResearchers
  IN  /\ InCollectionOrder
      /\ Paired([i \in 1..Len(rs) |-> rs[i].email], l.emails)
      /\ Paired([i \in 1..Len(rs) |-> rs[i].orcid], l.orcids)
      /\ Paired([i \in 1..Len(rs) |-> rs[i].institution], l.institutions)
      /\ PairedLink([i \in 1..Len(rs) |-> rs[i].linkedin], l.linkedinProfiles)
      /\ PairedLink([i \in 1..Len(rs) |-> rs[i].google_scholar], l.scholarProfiles)
      /\ PairedLink([i \in 1..Len(rs) |-> rs[i].researchgate], l.researchgateProfiles)

NamesOf(rs) == {rs[i].name : i \in 1..Len(rs)}
Occurrences(rs, name) == Cardinality({i \in 1..Len(rs) : rs[i].name = name})

\* C6: the enricher returns one record per input researcher: the same length
\* and every name as often as in the input, whatever the external calls did.
C6_OneRecordPerResearcher ==
  pePc = "done" =>
    /\ Len(peOutput) = Len(peInput)
    /\ \A name \in NamesOf(peInput) \cup NamesOf(peOutput) :
         Occurrences(peOutput, name) = Occurrences(peInput, name)

\* a full list went through with a client whose calls left some record bare
C6_Witness ==
  /\ pePc = "done" /\ client /\ Len(peInput) = MaxResearchers
  /\ \E i \in 1..Len(peOutput) :
       peOutput[i].research_areas = <<>> /\ peOutput[i].google_scholar = ""

\* the position of a name in the input
InputPosition(name) == CHOOSE i \in 1..Len(peInput) : peInput[i].name = name

\* C7: the returned list is in descending order of paper count, and records
\* of equal paper count keep the relative order of the input.
C7_SortedStable ==
  pePc = "done" =>
    \A i, j \in 1..Len(peOutput) :
      i < j =>
        /\ peOutput[i].paper_count >= peOutput[j].paper_count
        /\ peOutput[i].paper_count = peOutput[j].paper_count
             => InputPosition(peOutput[i].name) < InputPosition(peOutput[j].name)

\* the sort had to move a later researcher in front of an earlier one
C7_Witness ==
  /\ pePc = "done"
  /\ \E i, j \in 1..Len(peOutput) :
       /\ i < j
       /\ peOutput[i].paper_count > peOutput[j].paper_count
       /\ InputPosition(peOutput[i].name) > InputPosition(peOutput[j].name)

\* the URL starts with http:// or https://
StartsWithHttpScheme(url) ==
  startsWith(url, <<"h","t","t","p",":","/","/">>)
    \/ startsWith(url, <<"h","t","t","p","s",":","/","/">>)

\* C18: in every endpoint invalid input is answered 400 at once and before any
\* outbound call: a blank or missing search query (no translation, no
\* repository fetch), a document URL that is missing, does not start with an
\* HTTP scheme or does not end in .pdf (no document fetch, no extraction, no
\* enrichment), a researchers payload that is not a list (no lookup), a
\* missing researcher (no task submitted, no status request).
C18_InvalidInputRejectedAtOnce ==
  /\ (spPc # "idle" /\ trim(spQuery) = <<>>) =>
       /\ spPc = "done" /\ spResponse.status = 400
       /\ searchQuery = <<>> /\ spRequests = <<>>
  /\ (arPc # "idle"
        /\ (pdfUrl = <<>> \/ ~StartsWithHttpScheme(pdfUrl)
              \/ ~endsWith(pdfUrl, <<".","p","d","f">>))) =>
       /\ arPc = "done" /\ arResponse.status = 400
       /\ arFetches = 0 /\ ~arExtracted /\ peLog = <<>>
  /\ (gsPc # "idle" /\ ~gsInput.isArray) =>
       /\ gsPc = "done" /\ gsResponse.status = 400
       /\ gsOutcomes = <<>>
  /\ (crPc # "idle" /\ ~crResearcher.present) =>
       /\ crPc = "done" /\ crResponse.status = 400
       /\ crSubmits = 0 /\ crPolls = 0

\* C19: when the document fetch throws, answers non-2xx or brings no text, the
\* request is over with a 500 that carries no researchers, and neither the
\* extractor nor the enricher was called.
C19_FetchFailureIsHardError ==
  arDocument \in {"throws", "notok", "empty"} =>
    /\ arPc = "done"
    /\ arResponse.status = 500
    /\ arResponse.researchers = <<>>
    /\ ~arExtracted
    /\ pePc = "idle"
    /\ peLog = <<>>

\* a fetch that answered 2xx with an empty body
C19_Witness == arPc = "done" /\ arDocument = "empty" /\ arFetches = 1

\* C20: every researcher handed to the enricher comes out with the papers and
\* the paper count its paper search brought and with the scholar profile it
\* had or its lookup brought, also when the research-area completion threw
\* afterwards; in that case the other fields are as they came; and the
\* researchers after it went through their calls as well.
C20_FieldsBeforeFailureKept ==
  pePc = "done" =>
    /\ Len(peLog) = Len(peInput)
    /\ \A i \in 1..Len(peInput) :
         \E k \in 1..Len(peOutput) :
           LET out == peOutput[k]
               given == peInput[i]
           IN  /\ out.name = given.name
               /\ out.arxiv_papers = peLog[i].papers
               /\ out.paper_count = Len(peLog[i].papers)
               /\ out.google_scholar =
                    IF given.google_scholar # "" THEN given.google_scholar
                    ELSE peLog[i].scholar
               /\ peLog[i].failed =>
                    /\ out.linkedin = given.linkedin
                    /\ out.researchgate = given.researchgate
                    /\ out.research_areas = given.research_areas

\* the completion threw for the first researcher after its papers and its
\* profile were found, and the second researcher got its papers
C20_Witness ==
  /\ pePc = "done" /\ Len(peInput) >= 2
  /\ peLog[1].failed /\ Len(peLog[1].papers) = 2
  /\ peLog[1].scholar = "scholar link from AI"
  /\ ~peLog[2].failed /\ Len(peLog[2].papers) = 2

(***************************************************************************)
(* Properties of the google-scholar batch route.                           *)
(***************************************************************************)
IsResearcherList(payload) ==
  payload.isArray /\ \A i \in 1..Len(payload.researchers) : payload.researchers[i].isObject

\* C8: for a list of researchers the route answers 200 with a list of the
\* same length in which element i is input researcher i with a profile
\* (its own lookup brought results) or a null profile (its own lookup failed
\* or the key is missing), in every order in which the lookups settle.
C8_BatchBestEffort ==
  (gsPc = "done" /\ IsResearcherList(gsInput)) =>
    /\ gsResponse.status = 200
    /\ Len(gsResponse.researchers) = Len(gsInput.researchers)
    /\ \A i \in 1..Len(gsInput.researchers) :
         /\ gsResponse.researchers[i].name = gsInput.researchers[i].name
         /\ gsResponse.researchers[i].isObject
         /\ gsResponse.researchers[i].google_scholar_info =
              IF gsOutcomes[i] = "results" THEN "profile from search" ELSE ""

\* a batch answered after one lookup failed and another brought results
C8_Witness ==
  /\ gsPc = "done" /\ gsResponse.status = 200 /\ Len(gsInput.researchers) >= 2
  /\ gsOutcomes[1] = "throws" /\ gsOutcomes[2] = "results"

\* C9: an enrichment field populated on input has the same value on output,
\* in the enricher (google_scholar, linkedin, researchgate, research_areas)
\* and in the batch route (google_scholar_info).
C9_EnrichmentFieldsAdditive ==
  /\ pePc = "done" =>
       \A i \in 1..Len(peOutput) :
         LET given == peInput[InputPosition(peOutput[i].name)]
             out == peOutput[i]
         IN  /\ given.google_scholar # "" => out.google_scholar = given.google_scholar
             /\ given.linkedin # "" => out.linkedin = given.linkedin
             /\ given.researchgate # "" => out.researchgate = given.researchgate
             /\ given.research_areas # <<>> => out.research_areas = given.research_areas
  /\ (gsPc = "done" /\ gsResponse.status = 200) =>
       \A i \in 1..Len(gsInput.researchers) :
         gsInput.researchers[i].google_scholar_info # "" =>
           gsResponse.researchers[i].google_scholar_info =
             gsInput.researchers[i].google_scholar_info

(***************************************************************************)
(* Properties of the page.                                                 *)
(***************************************************************************)
\* C22: without SERP_API_KEY every researcher of a stored analysis result is
\* listed under its paper.
C22_ResearchersShownWithoutKey ==
  ~serpApiKey =>
    \A p \in DOMAIN paperAnalysisResults :
      /\ p \in expandedPapers
      /\ ShownResearchers(p) = paperAnalysisResults[p].researchers

\* C24: the favorites list never holds two researchers with the same name
\* and institution.
C24_FavoritesDeduplicated ==
  \A i, j \in 1..Len(selectedResearchers) :
    i # j => ~SameResearcher(selectedResearchers[i], selectedResearchers[j])

\* C29: while an analyzeResearchers call for a paper is in flight,
\* analyzingPaper is that paper's id.
C29_MarkerCoversInFlight == \A c \in Calls : analyzingPaper = c.paperId

\* C30: no stored analysis result comes from a call started before the last
\* reset of the results by searchPapers.
C30_NoResultFromBeforeReset ==
  \A p \in DOMAIN paperAnalysisResults : ~paperAnalysisResults[p].launchedBeforeReset

====
